---- MODULE Spec2Model ----
(***************************************************************************)
(* The scrape-to-download task pipeline of the repository:                 *)
(*   ScheduledTaskService  (src/services/scheduledTaskService.js)          *)
(*   ScraperService        (src/services/scraperService.js)                *)
(*   BrowserService        (src/unnamed/part_002, lines 687-948)           *)
(*   DownloadService       (src/unnamed/part_001)                          *)
(*   Utils                 (src/services/utils.js)                         *)
(*                                                                         *)
(* Scheduling.  Node runs one callback to completion and then drains the   *)
(* promise jobs it queued, so a step of the model runs from the completion *)
(* of one awaited I/O operation (a puppeteer call, an HTTP request, a      *)
(* stream) to the point where the next one is issued.  Awaits of calls     *)
(* that perform no I/O are part of the same step.  The loop of             *)
(* downloadFiles is the one exception: every iteration starts a step.      *)
(* The outcome of each I/O operation is chosen by the environment.         *)
(***************************************************************************)
EXTENDS Integers, Sequences, FiniteSets, TLC

\* ------------------------------------------------------------------ bounds
\* executeTask calls made in one behaviour
MaxRuns == 2
\* executeTask calls made in one behaviour when no I/O operation fails
MaxReliableRuns == 3
\* cancelTask calls made in one behaviour
MaxCancels == 1
\* rows of the listing page that carry the target date
MaxRows == 1
\* entries in a list handed to downloadFiles
MaxEntries == 2
\* calls (executeTask or downloadFiles) made in one behaviour by callers that
\* wait for each call to settle before they make the next
MaxSeqCalls == 2
\* direct calls of _saveResults made in one behaviour, one at a time
MaxSaves == 2
\* direct calls of ScraperService methods made in one behaviour, one at a time
MaxSessionCalls == 4
\* raw rows in a list handed to _processEntries on its own
MaxRawEntries == 3
\* characters of a title handed to extractVersionFromTitle on its own
MaxTitleLen == 6
\* tokens of a URL after its origin, handed to extractUrlInfo on its own
MaxUrlLen == 4
\* tokens of a slug handed to generateFilename on its own
MaxSlugLen == 5
\* entries handed to estimateDownloadSize, and the largest content-length
MaxEstimateEntries == 6
MaxContentLength == 2
\* rows of the listing page handed to the extraction routine
MaxPageRows == 2
\* rate limiter: client IPs, requests seen, the clock's range, windowMs and
\* maxRequests of the middleware under test
MaxIps == 2
MaxArrivals == 5
MaxNow == 4
WindowMs == 2
MaxRequests == 2
\* /refresh requests received by the application, and the delay of the
\* cleanup timer in clock ticks
MaxRefreshes == 3
HourTicks == 2

Max(a, b) == IF a > b THEN a ELSE b
Runs == 1..Max(Max(Max(Max(MaxRuns, MaxReliableRuns), MaxSeqCalls), MaxSaves),
               MaxSessionCalls)
Cancels == 1..MaxCancels
Ips == 1..MaxIps
Requests == 1..MaxRefreshes

\* ------------------------------------------------------------------- data
\* Titles and slugs are sequences of tokens.  A title token is a run of
\* letters without 'v' ("P"), a space, the letter 'v', a digit run ("1") or
\* a dot.  A slug token is "x" / "y" (text free of '-' and of "download"),
\* "-" or "download".
TitleVersioned == <<"P", " ", "v", "1">>
TitleDigitOnly == <<"P", " ", "1">>
TitlePlain == <<"P">>

\* Raw rows the listing page can hold (what _extractEntriesFromPage returns
\* for a matching row), keyed by the site's data-id.  downloadLink "" stands
\* for a missing href (getAttribute gives null).
EntryPool ==
    { [id |-> 1, productName |-> TitleVersioned, slug |-> <<"x">>, downloadLink |-> "u1"],
      [id |-> 2, productName |-> TitleVersioned, slug |-> <<"x", "-", "download">>, downloadLink |-> "u2"],
      [id |-> 3, productName |-> TitleVersioned, slug |-> <<>>, downloadLink |-> "u3"],
      [id |-> 4, productName |-> TitleDigitOnly, slug |-> <<"y">>, downloadLink |-> ""],
      [id |-> 5, productName |-> TitlePlain, slug |-> <<"y">>, downloadLink |-> "u5"] }

\* A title character that is a digit
IsDigit(tok) == tok \in {"1", "2"}

\* Utils.extractVersionFromTitle, the hasVersion field: the title holds a
\* digit and the pattern v\d+(\.\d+){0,3} matches somewhere.
HasVersion(title) ==
    /\ \E i \in 1..Len(title) : IsDigit(title[i])
    /\ \E i \in 1..(Len(title) - 1) : title[i] = "v" /\ IsDigit(title[i + 1])

\* Sequences over S of length at most n
SeqUpTo(S, n) == UNION { [1..k -> S] : k \in 0..n }

EntryLists == SeqUpTo(EntryPool, MaxEntries)

\* The rows a listing page holds for the target date in a run of executeTask:
\* a row with a versioned title and a row without a version
ScrapePool == { e \in EntryPool : e.id \in {1, 5} }
RawLists == SeqUpTo(ScrapePool, MaxRows)

\* The raw rows that _processEntries is applied to on its own: those of
\* EntryPool and a row whose title holds a 'v' and a digit apart ("PvP 1")
RawPool ==
    EntryPool \cup
    { [id |-> 6, productName |-> <<"P", "v", "P", " ", "1">>, slug |-> <<"x">>,
       downloadLink |-> "u6"] }
RawInputs == SeqUpTo(RawPool, MaxRawEntries)

\* The title holds no digit
NoDigit(title) == \A i \in 1..Len(title) : ~IsDigit(title[i])

\* A normalisation that keeps every entry whose title holds a digit
RECURSIVE ProcessEntriesAnyDigit(_)
ProcessEntriesAnyDigit(rawEntries) ==
    IF rawEntries = <<>> THEN <<>>
    ELSE LET rest == ProcessEntriesAnyDigit(Tail(rawEntries))
         IN IF ~NoDigit(Head(rawEntries).productName)
            THEN <<Head(rawEntries)>> \o rest
            ELSE rest

\* ScraperService._processEntries: entries without a version are dropped,
\* the others keep their order
RECURSIVE ProcessEntries(_)
ProcessEntries(rawEntries) ==
    IF rawEntries = <<>> THEN <<>>
    ELSE LET rest == ProcessEntries(Tail(rawEntries))
         IN IF HasVersion(Head(rawEntries).productName)
            THEN <<Head(rawEntries)>> \o rest
            ELSE rest

\* Utils.validateRequiredFields(entry, ['downloadLink', 'slug'])
MissingRequiredFields(e) == e.downloadLink = "" \/ e.slug = <<>>

\* First position at which pat occurs in seq, 0 when it does not
FirstMatch(seq, pat) ==
    LET hits == { i \in 1..(Len(seq) - Len(pat) + 1) :
                    SubSeq(seq, i, i + Len(pat) - 1) = pat }
    IN IF hits = {} THEN 0 ELSE CHOOSE i \in hits : \A j \in hits : i <= j

\* Utils.generateFilename: slug.replace(/-download$/, "") and then
\* .replace(/download-/, ""), with ".zip" appended
GenerateFilename(slug) ==
    LET n == Len(slug)
        a == IF n >= 2 /\ SubSeq(slug, n - 1, n) = <<"-", "download">>
             THEN SubSeq(slug, 1, n - 2) ELSE slug
        k == FirstMatch(a, <<"download", "-">>)
        b == IF k = 0 THEN a ELSE SubSeq(a, 1, k - 1) \o SubSeq(a, k + 2, Len(a))
    IN Append(b, ".zip")

Filenames == { GenerateFilename(e.slug) : e \in EntryPool }

\* --- Utils.extractVersionFromTitle, on titles as sequences of characters:
\* "P" a letter other than 'v', " ", "v", the digits "1" and "2", "."
\* The number of digits that stand at position i and after it
RECURSIVE DigitsFrom(_, _)
DigitsFrom(title, i) ==
    IF i <= Len(title) /\ IsDigit(title[i]) THEN 1 + DigitsFrom(title, i + 1) ELSE 0

\* The length of what (\.\d+){0,n} matches at position i (greedy)
RECURSIVE GroupsFrom(_, _, _)
GroupsFrom(title, i, n) ==
    IF n > 0 /\ i <= Len(title) /\ title[i] = "." /\ DigitsFrom(title, i + 1) > 0
    THEN LET d == DigitsFrom(title, i + 1)
         IN 1 + d + GroupsFrom(title, i + 1 + d, n - 1)
    ELSE 0

\* The length of what v\d+(\.\d+){0,3} matches at position i, 0 for no match
MatchAt(title, i) ==
    IF i >= 1 /\ i <= Len(title) /\ title[i] = "v" /\ DigitsFrom(title, i + 1) > 0
    THEN LET d == DigitsFrom(title, i + 1)
         IN 1 + d + GroupsFrom(title, i + 1 + d, 3)
    ELSE 0

\* The least element of a non-empty set of numbers
Least(S) == CHOOSE i \in S : \A j \in S : i <= j

\* Utils.extractVersionFromTitle
ExtractVersionFromTitle(title) ==
    LET none == [version |-> <<>>, cleanTitle |-> title, hasVersion |-> FALSE]
        hits == { i \in 1..Len(title) : MatchAt(title, i) > 0 }
        spaced == { j \in 1..Len(title) : title[j] = " " /\ MatchAt(title, j + 1) > 0 }
    IN IF NoDigit(title) \/ hits = {} THEN none
       ELSE LET i == Least(hits)
                n == MatchAt(title, i)
            IN [version |-> SubSeq(title, i + 1, i + n - 1),
                cleanTitle |->
                   IF spaced = {} THEN title
                   ELSE LET j == Least(spaced)
                            m == MatchAt(title, j + 1)
                        IN SubSeq(title, 1, j - 1) \o SubSeq(title, j + m + 1, Len(title)),
                hasVersion |-> TRUE]

TitleChars == {"P", " ", "v", "1", "2", "."}
Titles == SeqUpTo(TitleChars, MaxTitleLen)

\* --- Utils.extractUrlInfo, on URLs as sequences of tokens: "https:", "/",
\* "x" (text), "?", "&" and "pid" (the text product_id=42)
Origin == <<"https:", "/", "/", "x">>
UrlTails == SeqUpTo({"/", "x", "?", "&", "pid"}, MaxUrlLen)

\* What callers pass: absolute URLs, and strings without a scheme
Urls == { Origin \o tail : tail \in UrlTails } \cup UrlTails

\* new URL(url) accepts a string that begins with a scheme and a host
ParsesAsUrl(url) == Len(url) >= Len(Origin) /\ SubSeq(url, 1, Len(Origin)) = Origin

\* The positions of the token tok in seq
Positions(seq, tok) == { i \in 1..Len(seq) : seq[i] = tok }

\* What follows the last tok in seq (split(tok), last part)
LastPart(seq, tok) ==
    LET at == Positions(seq, tok)
    IN IF at = {} THEN seq
       ELSE SubSeq(seq, (CHOOSE i \in at : \A j \in at : j <= i) + 1, Len(seq))

\* url.replace(/^\/|\/$/g, '')
StripSlashes(url) ==
    LET a == IF url # <<>> /\ url[1] = "/" THEN Tail(url) ELSE url
    IN IF a # <<>> /\ a[Len(a)] = "/" THEN SubSeq(a, 1, Len(a) - 1) ELSE a

\* The query string of a URL: what follows its first "?"
QueryOf(url) ==
    LET at == Positions(url, "?")
    IN IF at = {} THEN <<>> ELSE SubSeq(url, Least(at) + 1, Len(url))

\* searchParams.get("product_id") || '': the value of the first parameter
\* named product_id, "42" and the text that follows it up to the next "&"
RECURSIVE UpToAmp(_)
UpToAmp(seq) ==
    IF seq = <<>> \/ Head(seq) = "&" THEN <<>> ELSE <<Head(seq)>> \o UpToAmp(Tail(seq))

ProductIdOf(query) ==
    LET starts == { i \in 1..Len(query) :
                      query[i] = "pid" /\ (i = 1 \/ query[i - 1] = "&") }
    IN IF starts = {} THEN <<>>
       ELSE <<"42">> \o UpToAmp(SubSeq(query, Least(starts) + 1, Len(query)))

\* Utils.extractUrlInfo
ExtractUrlInfo(url) ==
    IF ~ParsesAsUrl(url) THEN [slug |-> <<>>, productId |-> <<>>]
    ELSE [slug |-> LastPart(StripSlashes(url), "/"),
          productId |-> ProductIdOf(QueryOf(url))]

\* --- Utils.generateFilename on its own
Slugs == SeqUpTo({"x", "y", "-", "download"}, MaxSlugLen)

\* ------------------------------------------------------------------ state
VARIABLES
    isRunning,       \* ScheduledTaskService.isRunning
    cleanupTimeout,  \* ScheduledTaskService.cleanupTimeout, 0 for null
    isLoggedIn,      \* ScraperService.isLoggedIn
    authenticated,   \* history: login() has succeeded and no close() has finished since
    loggedInPages,   \* history: the pages on which login() has completed
    browser,         \* BrowserService.browser, 0 for null
    page,            \* BrowserService.page, 0 for null
    downloadStats,   \* DownloadService.downloadStats
    openBrowsers,    \* the browser processes running
    openPages,       \* the pages open (a page carries the number of its browser)
    timers,          \* cleanup timers armed in the event loop
    files,           \* the download directory: filename -> "absent" | "empty" | "full"
    stores,          \* the persisted collections: the ids of the records each holds
    task,            \* one record per executeTask call: its position and locals
    cancel,          \* one record per cancelTask call
    processing,      \* _processEntries applied on its own: argument and result
    utils,           \* a static function of Utils applied on its own
    estimate,        \* DownloadService.estimateDownloadSize applied on its own
    extraction,      \* _extractEntriesFromPage applied on its own to a page
    rateLimit,       \* ValidationMiddleware.rateLimit: the clock, the Map, the answers
    refresh          \* app.js: the /refresh requests, their timers, the directory

vars == <<isRunning, cleanupTimeout, isLoggedIn, authenticated, loggedInPages,
          browser, page, downloadStats, openBrowsers, openPages, timers, files, stores, task, cancel, processing,
          utils, estimate, extraction, rateLimit, refresh>>

ZeroStats == [successful |-> 0, failed |-> 0, total |-> 0]

\* A call that has not been made yet
IdleTask ==
    [pc |-> "idle", phase |-> 0, site |-> "", tgt |-> 0, err |-> "",
     pend |-> "", extracted |-> FALSE, scraped |-> FALSE, entries |-> <<>>, i |-> 0,
     successful |-> <<>>, failed |-> <<>>, tried |-> <<>>, reqs |-> <<>>,
     answers |-> <<>>, ops |-> {},
     out |-> "", direct |-> FALSE, cancelled |-> FALSE]

\* A cancelTask call that has not been made yet (noop records that the call
\* returned on line 110)
IdleCancel == [pc |-> "idle", site |-> "cancel", tgt |-> 0, noop |-> FALSE]

\* _processEntries has not been called on its own
NotProcessing == [rawEntries |-> <<>>, processedEntries |-> <<>>, returned |-> FALSE]

\* No function of Utils has been called on its own
NoUtilsCall == [fn |-> "", arg |-> <<>>, result |-> <<>>, returned |-> FALSE]

\* estimateDownloadSize has not been called.  A returned number is the
\* quotient num / den of the division on line 266 (NaN when den is 0).
NotEstimating ==
    [pc |-> "idle", n |-> 0, k |-> 0, totalSize |-> 0, unknownSizes |-> 0,
     probes |-> 0, sized |-> 0, result |-> [num |-> 0, den |-> 1]]

\* The extraction routine has not been evaluated in a page
NotExtracting == [rows |-> <<>>, targetDate |-> <<>>, entries |-> <<>>, returned |-> FALSE]

\* The middleware returned by rateLimit() has seen no request: its Map is
\* empty (count 0 stands for no entry)
NoTraffic ==
    [now |-> 0,
     requests |-> [ip \in Ips |-> [count |-> 0, firstRequest |-> 0]],
     log |-> <<>>]

\* The application has received no /refresh request
AppIdle ==
    [req |-> [q \in Requests |-> "idle"],
     timer |-> [q \in Requests |-> "none"],
     left |-> [q \in Requests |-> 0],
     downloads |-> {}]

\* The state after `new ScheduledTaskService()` (the constructors of the
\* four services), with an empty download directory
Init ==
    /\ isRunning = FALSE
    /\ cleanupTimeout = 0
    /\ isLoggedIn = FALSE
    /\ authenticated = FALSE
    /\ loggedInPages = {}
    /\ browser = 0
    /\ page = 0
    /\ downloadStats = ZeroStats
    /\ openBrowsers = {}
    /\ openPages = {}
    /\ timers = {}
    /\ files = [f \in Filenames |-> "absent"]
    /\ stores = [database |-> <<>>, dataCsv |-> <<>>, errorCsv |-> <<>>]
    /\ task = [r \in Runs |-> IdleTask]
    /\ cancel = [c \in Cancels |-> IdleCancel]
    /\ processing = NotProcessing
    /\ utils = NoUtilsCall
    /\ estimate = NotEstimating
    /\ extraction = NotExtracting
    /\ rateLimit = NoTraffic
    /\ refresh = AppIdle

\* The positions at which a call awaits an operation on a browser / a page;
\* tgt is the browser / page the operation was issued on
BrowserPcs == {"newPage", "closeBrowser"}
PagePcs == {"login_nav", "login_consent", "login_user", "login_pass", "login_click",
            "scrape_nav", "evaluate", "closePage", "cookies"}

RefB(t) == IF t.pc \in BrowserPcs THEN {t.tgt} ELSE {}
RefP(t) == IF t.pc \in PagePcs THEN {t.tgt} ELSE {}

\* The browsers / pages some pending call still holds a reference to
HeldBrowsers(tk, cn) ==
    UNION { RefB(tk[r]) : r \in Runs } \cup UNION { RefB(cn[c]) : c \in Cancels }
HeldPages(tk, cn) ==
    UNION { RefP(tk[r]) : r \in Runs } \cup UNION { RefP(cn[c]) : c \in Cancels }

\* Browsers are numbered by the launch that made them: call r launches
\* browser 2r-1 in _initializeServices (phase 1) and browser 2r in
\* scrapeForDate (phase 2).  The one page of a browser has its number.
BrowserId(r, phase) == 2 * r - (IF phase = 1 THEN 1 ELSE 0)
Launcher(b) == (b + 1) \div 2

\* The shared state together with the locals t of the call that takes the
\* step, as one record that the code's steps transform
St(t) ==
    [isRunning |-> isRunning, cleanupTimeout |-> cleanupTimeout,
     isLoggedIn |-> isLoggedIn, authenticated |-> authenticated,
     loggedInPages |-> loggedInPages,
     browser |-> browser, page |-> page,
     downloadStats |-> downloadStats, openBrowsers |-> openBrowsers,
     openPages |-> openPages, timers |-> timers, files |-> files,
     stores |-> stores,
     t |-> t]

\* A browser or page launched by a call whose caller has been answered, and
\* that no field and no pending call refers to any more, can never be reached
\* again: it stays open for good and is dropped from the state.
CommitShared(s, tk, cn) ==
    /\ isRunning' = s.isRunning
    /\ cleanupTimeout' = s.cleanupTimeout
    /\ isLoggedIn' = s.isLoggedIn
    /\ authenticated' = s.authenticated
    /\ loggedInPages' =
         { p \in s.loggedInPages :
             \/ p = s.page
             \/ /\ p \in s.openPages
                /\ \/ tk[Launcher(p)].pc # "returned"
                   \/ p \in HeldPages(tk, cn) }
    /\ browser' = s.browser
    /\ page' = s.page
    /\ downloadStats' = s.downloadStats
    /\ openBrowsers' =
         { b \in s.openBrowsers :
             \/ tk[Launcher(b)].pc # "returned"
             \/ b = s.browser
             \/ b \in HeldBrowsers(tk, cn) }
    /\ openPages' =
         { p \in s.openPages :
             \/ tk[Launcher(p)].pc # "returned"
             \/ p = s.page
             \/ p \in HeldPages(tk, cn) }
    /\ timers' = s.timers
    /\ files' = s.files
    /\ stores' = s.stores
    /\ task' = tk
    /\ cancel' = cn
    /\ processing' = processing
    /\ utils' = utils
    /\ estimate' = estimate
    /\ extraction' = extraction
    /\ rateLimit' = rateLimit
    /\ refresh' = refresh

CommitTask(r, s) == CommitShared(s, [task EXCEPT ![r] = s.t], cancel)

CommitCancel(c, s) == CommitShared(s, task, [cancel EXCEPT ![c] = s.t])

\* What executeTask can resolve with; every other outcome is a rejection
Results == {"NoEntries", "Completed"}

\* An executeTask call that was admitted past the running-flag check and has
\* not settled (direct marks a call of downloadFiles made by another caller)
InFlight(t) == t.pc \notin {"idle", "settled", "returned"} /\ ~t.direct

\* ------------------------------------------- BrowserService / ScraperService
\* BrowserService.close up to its first await: page.close() when a page is
\* held, else browser.close() when a browser is held, else nothing to do
BrowserClose(s) ==
    IF s.page # 0 THEN [s EXCEPT !.t.pc = "closePage", !.t.tgt = s.page]
    ELSE IF s.browser # 0 THEN [s EXCEPT !.t.pc = "closeBrowser", !.t.tgt = s.browser]
    ELSE [s EXCEPT !.t.pc = "closed", !.t.tgt = 0]

\* ScraperService.close called from `site`: isLoggedIn is cleared only once
\* BrowserService.close has returned without throwing
ScraperClose(s, site) ==
    LET b == BrowserClose([s EXCEPT !.t.site = site])
    IN IF b.t.pc = "closed" THEN [b EXCEPT !.isLoggedIn = FALSE, !.authenticated = FALSE]
       ELSE b

\* ------------------------------------------------------- DownloadService
\* ScheduledTaskService.getStatus: a synchronous read of the state
GetStatus ==
    [isRunning |-> isRunning, downloadStats |-> downloadStats,
     hasScheduledCleanup |-> cleanupTimeout # 0]

\* The catch block of _downloadSingleFile: the file at the entry's path is
\* deleted when it exists; a failing unlink is swallowed
CleanupPartial(s, e, unlinkOk) ==
    LET f == GenerateFilename(e.slug)
    IN IF s.files[f] # "absent" /\ unlinkOk THEN [s EXCEPT !.files[f] = "absent"] ELSE s

\* A loop catch block that records the entry without the error's message
PushFailedNoMessage(s, e, error) ==
    [s EXCEPT !.t.failed = Append(@, [idx |-> s.t.i, id |-> e.id, error |-> ""]),
              !.downloadStats.failed = @ + 1,
              !.t.i = @ + 1,
              !.t.pc = "loop"]

\* The catch block of the loop of downloadFiles: the entry goes to `failed`
\* with the error's message, and the loop moves on
PushFailed(s, e, error) ==
    [s EXCEPT !.t.failed = Append(@, [idx |-> s.t.i, id |-> e.id, error |-> error]),
              !.downloadStats.failed = @ + 1,
              !.t.i = @ + 1,
              !.t.pc = "loop"]

\* A loop that rethrows the first failure instead of going on
DownloadFailedAbort(s, error, unlinkOk) ==
    LET e == s.t.entries[s.t.i]
    IN [PushFailed(CleanupPartial(s, e, unlinkOk), e, error)
          EXCEPT !.t.i = Len(s.t.entries) + 1]

\* _downloadSingleFile throws `error` for the entry at hand
DownloadFailed(s, error, unlinkOk) ==
    LET e == s.t.entries[s.t.i]
    IN PushFailed(CleanupPartial(s, e, unlinkOk), e, error)

\* A loop that counts a download without keeping its entry
DownloadSucceededUncounted(s) ==
    [s EXCEPT !.downloadStats.successful = @ + 1, !.t.i = @ + 1, !.t.pc = "loop"]

\* _downloadSingleFile returns the entry with its file information
DownloadSucceeded(s) ==
    LET e == s.t.entries[s.t.i]
    IN [s EXCEPT !.t.successful =
                    Append(@, [idx |-> s.t.i, id |-> e.id,
                               filename |-> GenerateFilename(e.slug)]),
                 !.downloadStats.successful = @ + 1,
                 !.t.i = @ + 1,
                 !.t.pc = "loop"]

\* ------------------------------------------------- ScheduledTaskService
\* The promise of executeTask settles with the pending result or error (the
\* locals that die with the call are reset)
Settle(s) ==
    [s EXCEPT !.t = [IdleTask EXCEPT !.pc = "settled",
                                     !.out = s.t.pend,
                                     !.extracted = s.t.extracted,
                                     !.scraped = s.t.scraped,
                                     !.entries = s.t.entries,
                                     !.successful = s.t.successful,
                                     !.failed = s.t.failed,
                                     !.tried = s.t.tried,
                                     !.reqs = s.t.reqs,
                                     !.answers = s.t.answers,
                                     !.ops = s.t.ops,
                                     !.direct = s.t.direct,
                                     !.cancelled = s.t.cancelled]]

\* A finally block that clears the flag only when a result is returned
FinallyDoneOnSuccess(s) ==
    Settle(IF s.t.pend \in Results THEN [s EXCEPT !.isRunning = FALSE] ELSE s)

\* executeTask, line 79 and the end of the finally block
FinallyDone(s) == Settle([s EXCEPT !.isRunning = FALSE])

\* ScheduledTaskService._cleanup up to its first await: the pending cleanup
\* timer is cleared, then scraperService.close() is called
Cleanup(s, site) ==
    ScraperClose([s EXCEPT !.timers = @ \ {s.cleanupTimeout}, !.cleanupTimeout = 0], site)

\* executeTask leaves its try block with `pend` (a result to return or an
\* error to rethrow) and runs the finally block
EnterFinally(s, pend) ==
    LET c == Cleanup([s EXCEPT !.t.pend = pend], "fin")
    IN IF c.t.pc = "closed" THEN FinallyDone(c) ELSE c

\* cancelTask, lines 115-116
CancelDone(s) == [s EXCEPT !.isRunning = FALSE, !.t = [IdleCancel EXCEPT !.pc = "done"]]

\* A cancelTask that tears the session down whether or not a run is active
CancelTaskCallAlways(s) ==
    LET c == Cleanup([s EXCEPT !.t.noop = ~s.isRunning], "cancel")
    IN IF c.t.pc = "closed" THEN [CancelDone(c) EXCEPT !.t.noop = ~s.isRunning] ELSE c

\* cancelTask: a no-op when no run is active, else _cleanup and the flag
CancelTaskCall(s) ==
    IF ~s.isRunning THEN [s EXCEPT !.t.pc = "done", !.t.noop = TRUE]
    ELSE LET c == Cleanup(s, "cancel")
         IN IF c.t.pc = "closed" THEN CancelDone(c) ELSE c

\* A ScraperService method throws `err` where no finally block of the
\* service intervenes: to the caller that called the method directly
\* (phase 0), or into the catch block of executeTask
Throw(s, err) ==
    IF s.t.phase = 0 THEN Settle([s EXCEPT !.t.pend = err]) ELSE EnterFinally(s, err)

\* A ScraperService method called directly returns to its caller
ReturnToCaller(s) == Settle([s EXCEPT !.t.pend = "Resolved"])

\* ScraperService.getCookies (on line 51 of executeTask, or called directly),
\* up to the await of page.cookies()
GetCookies(s) ==
    IF ~s.isLoggedIn THEN Throw(s, "NotLoggedIn")
    ELSE IF s.page = 0 THEN Throw(s, "NoPage")
    ELSE [s EXCEPT !.t.pc = "cookies", !.t.tgt = s.page, !.t.ops = @ \cup {"cookies"}]

\* executeTask, lines 37-51: scrapeForDate has returned the entries
AfterScrape(s) ==
    LET s1 == [s EXCEPT !.t.scraped = TRUE]
    IN IF Len(s1.t.entries) = 0 THEN EnterFinally(s1, "NoEntries")
       ELSE GetCookies(s1)

\* The caller of scraperService.close() continues: ok is FALSE when close
\* threw.  In scrapeForDate's finally block an error thrown by close
\* replaces the pending one; _cleanup catches it; cancelTask awaits _cleanup.
AfterClose(s0, ok) ==
    LET s == [s0 EXCEPT !.authenticated = FALSE]
    IN CASE s.t.site = "fin" -> FinallyDone(s)
         [] s.t.site = "cancel" -> CancelDone(s)
         [] s.t.site = "direct" ->
               IF ok THEN ReturnToCaller(s) ELSE Throw(s, "CloseError")
         [] s.t.site = "sfd" ->
               IF ~ok THEN EnterFinally(s, "CloseError")
               ELSE IF s.t.err # "" THEN EnterFinally(s, s.t.err)
               ELSE AfterScrape(s)

\* BrowserService.close after `await this.page.close()`
ClosePageDone(s, ok) ==
    IF ~ok THEN AfterClose(s, FALSE)
    ELSE LET s1 == [s EXCEPT !.openPages = @ \ {s.t.tgt}, !.page = 0]
         IN IF s1.browser # 0
            THEN [s1 EXCEPT !.t.pc = "closeBrowser", !.t.tgt = s1.browser]
            ELSE AfterClose([s1 EXCEPT !.isLoggedIn = FALSE], TRUE)

\* BrowserService.close after `await this.browser.close()`; closing a
\* browser closes its pages
CloseBrowserDone(s, ok) ==
    IF ~ok THEN AfterClose(s, FALSE)
    ELSE AfterClose(
           [s EXCEPT !.openBrowsers = @ \ {s.t.tgt},
                     !.openPages = @ \ {s.t.tgt},
                     !.browser = 0,
                     !.isLoggedIn = FALSE], TRUE)

\* scrapeForDate's finally block: `await this.close()`
ScrapeForDateFinally(s) ==
    LET c == ScraperClose(s, "sfd")
    IN IF c.t.pc = "closed" THEN AfterClose(c, TRUE) ELSE c

\* A step of initialize / login / scrapeChangelogEntries throws.  Phase 1 is
\* _initializeServices (the error reaches executeTask's catch), phase 2 is
\* scrapeForDate (its finally block closes the session first).
Fail(s, err) ==
    IF s.t.phase \in {0, 1} THEN Throw(s, err)
    ELSE ScrapeForDateFinally([s EXCEPT !.t.err = err])

\* The BrowserService calls of ScraperService.login, in order: navigateTo,
\* handleCookieConsent, typeText (username), typeText (password),
\* clickElement.  Each is one awaited page operation.
LoginOps == <<"login_nav", "login_consent", "login_user", "login_pass", "login_click">>

LoginIndex(pc) == CHOOSE k \in 1..Len(LoginOps) : LoginOps[k] = pc

\* A BrowserService page method is entered: it throws when no page is held
\* (handleCookieConsent swallows that, and the typeText after it throws),
\* else it awaits the operation on the page held now
PageOp(s, op, err) ==
    IF s.page = 0 THEN Fail(s, err)
    ELSE [s EXCEPT !.t.pc = op, !.t.tgt = s.page]

\* BrowserService.launch up to `await puppeteer.launch()`
Launch(s) == [s EXCEPT !.t.pc = "launch", !.t.tgt = 0, !.t.ops = @ \cup {"launch"}]

\* launch after the await, then createPage up to `await browser.newPage()`;
\* r is the call that launches
LaunchDone(s, ok, r) ==
    IF ~ok THEN Fail(s, "LaunchError")
    ELSE LET b == BrowserId(r, s.t.phase)
         IN [s EXCEPT !.openBrowsers = @ \cup {b},
                      !.browser = b,
                      !.t.pc = "newPage",
                      !.t.tgt = b]

\* createPage after the await, then login up to its first page operation
NewPageDone(s, ok) ==
    IF ~ok THEN Fail(s, "PageError")
    ELSE LET s1 == [s EXCEPT !.openPages = @ \cup {s.t.tgt}, !.page = s.t.tgt]
         IN IF s1.t.phase = 0 THEN ReturnToCaller(s1)
            ELSE PageOp([s1 EXCEPT !.t.ops = @ \cup {"login"}], LoginOps[1], "LoginFailed")

\* ScraperService.scrapeChangelogEntries up to the await of navigateTo
ScrapeChangelogEntries(s) ==
    IF ~s.isLoggedIn THEN Fail(s, "NotLoggedIn")
    ELSE PageOp(s, "scrape_nav", "ScrapeError")

\* A page operation of login has finished.  A failure of the consent click
\* is swallowed.  After the submit click isLoggedIn is set; phase 1 then
\* returns to executeTask, which calls scrapeForDate (initialize again),
\* phase 2 goes on to scrapeChangelogEntries.
LoginOpDone(s, ok) ==
    LET k == LoginIndex(s.t.pc)
    IN IF ~ok /\ s.t.pc # "login_consent" THEN Fail(s, "LoginFailed")
       ELSE IF k < Len(LoginOps) THEN PageOp(s, LoginOps[k + 1], "LoginFailed")
       ELSE LET s1 == [s EXCEPT !.isLoggedIn = TRUE, !.authenticated = TRUE,
                               !.loggedInPages = @ \cup {s.t.tgt}]
            IN IF s1.t.phase = 0 THEN ReturnToCaller(s1)
               ELSE IF s1.t.phase = 1 THEN Launch([s1 EXCEPT !.t.phase = 2])
               ELSE ScrapeChangelogEntries(s1)

\* navigateTo(changelogUrl) has finished; evaluateInPage is entered
ScrapeNavDone(s, ok) ==
    IF ~ok THEN Fail(s, "ScrapeError")
    ELSE PageOp(s, "evaluate", "ScrapeError")

\* page.evaluate has returned the raw rows; _processEntries; scrapeForDate
\* returns through its finally block
EvaluateDone(s, ok, rawEntries) ==
    IF ~ok THEN Fail(s, "ScrapeError")
    ELSE LET s1 == [s EXCEPT !.t.entries = ProcessEntries(rawEntries),
                             !.t.extracted = TRUE]
         IN IF s1.t.phase = 0 THEN ReturnToCaller(s1) ELSE ScrapeForDateFinally(s1)

\* An executeTask that rejects on a failed directory validation without
\* running its finally block
ExecuteTaskCallNoFinally(s, dirOk) ==
    IF s.isRunning THEN [s EXCEPT !.t.pc = "settled", !.t.out = "AlreadyRunning"]
    ELSE LET s1 == [s EXCEPT !.isRunning = TRUE, !.t.phase = 1]
         IN IF dirOk THEN Launch(s1) ELSE Settle([s1 EXCEPT !.t.pend = "DirectoryError"])

\* executeTask from its call to the first awaited I/O: the running flag,
\* then _initializeServices (validateDownloadDirectory is synchronous)
ExecuteTaskCall(s, dirOk) ==
    IF s.isRunning THEN [s EXCEPT !.t.pc = "settled", !.t.out = "AlreadyRunning"]
    ELSE LET s1 == [s EXCEPT !.isRunning = TRUE, !.t.phase = 1]
         IN IF dirOk THEN Launch(s1) ELSE EnterFinally(s1, "DirectoryError")

\* ----------------------------------------- executeTask after the cookie read
\* The ids of the records of a result array
RECURSIVE Ids(_)
Ids(items) == IF items = <<>> THEN <<>> ELSE <<Head(items).id>> \o Ids(Tail(items))

\* The least timer identifier not armed
FreshTimer(armed) ==
    CHOOSE n \in 1..(Cardinality(armed) + 1) :
        n \notin armed /\ \A m \in 1..(n - 1) : m \in armed

\* _scheduleCleanup: a timer armed earlier is cleared, a new one is armed
ScheduleCleanup(s) ==
    LET left == s.timers \ {s.cleanupTimeout}
        id == FreshTimer(left)
    IN [s EXCEPT !.timers = left \cup {id}, !.cleanupTimeout = id,
                 !.t.ops = @ \cup {"schedule"}]

\* executeTask, lines 60-72: the cleanup is scheduled and the result returned
Finish(s) == EnterFinally(ScheduleCleanup(s), "Completed")

\* _saveResults returns: to executeTask (line 57), or to the caller that
\* called it directly
SaveReturn(s) ==
    IF s.t.direct THEN Settle([s EXCEPT !.t.pend = "Saved"]) ELSE Finish(s)

\* _saveResults rethrows a failed write (lines 172-175): to the catch block of
\* executeTask (lines 74-80), or to the caller that called it directly
SaveThrow(s) ==
    IF s.t.direct THEN Settle([s EXCEPT !.t.pend = "PersistenceFailure"])
    ELSE EnterFinally(s, "PersistenceFailure")

\* _saveResults, lines 167-170: the failed entries go to the error export
SaveFailed(s) ==
    IF Len(s.t.failed) > 0
    THEN [s EXCEPT !.t.pc = "saveErrors", !.t.tgt = 0, !.t.ops = @ \cup {"save"}]
    ELSE SaveReturn(s)

\* _saveResults, lines 160-164: the successful entries go to the main store
\* (JSONdb writes synchronously) and then to the data export
SaveResults(s, dbOk) ==
    LET s0 == [s EXCEPT !.t.ops = @ \cup {"persist"}]
    IN IF Len(s0.t.successful) > 0
       THEN IF ~dbOk THEN SaveThrow([s0 EXCEPT !.t.ops = @ \cup {"save"}])
            ELSE [s0 EXCEPT !.stores.database = Ids(s0.t.successful),
                            !.t.pc = "saveData", !.t.tgt = 0, !.t.ops = @ \cup {"save"}]
       ELSE SaveFailed(s0)

\* convertJsonToCsv has called back for the data export
SaveDataDone(s, ok) ==
    IF ~ok THEN SaveThrow(s)
    ELSE SaveFailed([s EXCEPT !.stores.dataCsv = Ids(s.t.successful)])

\* convertJsonToCsv has called back for the error export
SaveErrorsDone(s, ok) ==
    IF ~ok THEN SaveThrow(s)
    ELSE SaveReturn([s EXCEPT !.stores.errorCsv = Ids(s.t.failed)])

\* downloadFiles returns its results: to executeTask (line 54), or to the
\* caller that called it directly
DownloadFilesReturn(s, dbOk) ==
    IF s.t.direct THEN Settle([s EXCEPT !.t.pend = "Resolved"])
    ELSE SaveResults(s, dbOk)

\* One turn of the loop of downloadFiles (lines 44-60) up to the GET of
\* _downloadSingleFile (lines 78-99): validateRequiredFields, touch, axios
LoopStep(s, touchOk, unlinkOk, dbOk) ==
    IF s.t.i > Len(s.t.entries) THEN DownloadFilesReturn(s, dbOk)
    ELSE LET e == s.t.entries[s.t.i]
             f == GenerateFilename(e.slug)
             s1 == [s EXCEPT !.t.tried = Append(@, s.t.i)]
         IN IF MissingRequiredFields(e) THEN DownloadFailed(s1, "MissingFields", unlinkOk)
            ELSE IF ~touchOk THEN DownloadFailed(s1, "TouchError", unlinkOk)
            ELSE [s1 EXCEPT !.files[f] = IF @ = "absent" THEN "empty" ELSE @,
                            !.t.reqs = Append(@, s.t.i),
                            !.t.pc = "http"]

\* The GET has answered (lines 101-107): "ok" is status 200, "status" any
\* other status, "neterr" no response.  On 200 the write stream opens the
\* target file, truncating it, and the body is piped into it.
HttpDone(s, resp, unlinkOk) ==
    LET f == GenerateFilename(s.t.entries[s.t.i].slug)
        s1 == [s EXCEPT !.t.answers = Append(@, [idx |-> s.t.i, what |-> resp])]
    IN CASE resp = "neterr" -> DownloadFailed(s1, "NetworkError", unlinkOk)
         [] resp = "status" -> DownloadFailed(s1, "HttpStatusError", unlinkOk)
         [] resp = "ok" -> [s1 EXCEPT !.files[f] = "empty", !.t.pc = "pipe"]

\* The pipeline has ended (lines 109-125): `written` is what the file holds
\* now, streamOk whether the pipeline resolved.  statSync throws when the
\* file is gone.
PipelineDone(s, streamOk, written, unlinkOk) ==
    LET f == GenerateFilename(s.t.entries[s.t.i].slug)
        what == IF ~streamOk THEN "streamErr"
                ELSE IF written = "empty" THEN "zeroBytes" ELSE "bytes"
        s1 == [s EXCEPT !.files[f] = IF @ = "absent" THEN @ ELSE written,
                        !.t.answers = Append(@, [idx |-> s.t.i, what |-> what])]
    IN IF ~streamOk THEN DownloadFailed(s1, "StreamError", unlinkOk)
       ELSE IF s1.files[f] = "absent" THEN DownloadFailed(s1, "StatError", unlinkOk)
       ELSE IF s1.files[f] = "empty" THEN DownloadFailed(s1, "EmptyDownload", unlinkOk)
       ELSE DownloadSucceeded(s1)

\* A downloadFiles that resets the counters without recording the total
DownloadFilesCallNoTotal(s, entries, dirOk) ==
    LET s1 == [s EXCEPT !.downloadStats = ZeroStats,
                        !.t.entries = entries,
                        !.t.ops = @ \cup {"download"}]
    IN IF dirOk THEN [s1 EXCEPT !.t.pc = "loop", !.t.i = 1, !.t.tgt = 0]
       ELSE IF s1.t.direct THEN Settle([s1 EXCEPT !.t.pend = "DirectoryError"])
       ELSE EnterFinally(s1, "DirectoryError")

\* downloadFiles up to its loop (lines 28-42): the counters are reset, the
\* download directory is prepared
DownloadFilesCall(s, entries, dirOk) ==
    LET s1 == [s EXCEPT !.downloadStats = [ZeroStats EXCEPT !.total = Len(entries)],
                        !.t.entries = entries,
                        !.t.ops = @ \cup {"download"}]
    IN IF dirOk THEN [s1 EXCEPT !.t.pc = "loop", !.t.i = 1, !.t.tgt = 0]
       ELSE IF s1.t.direct THEN Settle([s1 EXCEPT !.t.pend = "DirectoryError"])
       ELSE EnterFinally(s1, "DirectoryError")

\* executeTask, lines 51-54: page.cookies() has answered
CookiesDone(s, ok, dirOk) ==
    IF ~ok THEN Throw(s, "CookieError")
    ELSE IF s.t.phase = 0 THEN ReturnToCaller(s)
    ELSE DownloadFilesCall(s, s.t.entries, dirOk)

\* --------------------------------------------------------------- actions
\* The outcomes the environment can give an I/O operation.  E is the set of
\* outcomes of an operation whose target is alive: BOOLEAN when operations
\* can fail, {TRUE} in an environment where none does.  An operation on a
\* page or browser that has been closed fails.
PageOutcomes(p, E) == IF p \in openPages THEN E ELSE {FALSE}
BrowserOutcomes(b, E) == IF b \in openBrowsers THEN E ELSE {FALSE}

\* The caller of a settled executeTask call continues in the same turn of
\* the event loop, ahead of every I/O completion and of every new request
NoneSettled == \A q \in Runs : task[q].pc # "settled"

\* A caller invokes executeTask
ExecuteTask(r, E) ==
    /\ NoneSettled
    /\ task[r].pc = "idle"
    /\ \A q \in 1..(r - 1) : task[q].pc # "idle"
    /\ \E dirOk \in E : CommitTask(r, ExecuteTaskCall(St(task[r]), dirOk))

TaskLaunchDone(r, E) ==
    /\ NoneSettled
    /\ task[r].pc = "launch"
    /\ \E ok \in E : CommitTask(r, LaunchDone(St(task[r]), ok, r))

TaskNewPageDone(r, E) ==
    /\ NoneSettled
    /\ task[r].pc = "newPage"
    /\ \E ok \in BrowserOutcomes(task[r].tgt, E) :
         CommitTask(r, NewPageDone(St(task[r]), ok))

TaskLoginOpDone(r, E) ==
    /\ NoneSettled
    /\ \E k \in 1..Len(LoginOps) : task[r].pc = LoginOps[k]
    /\ \E ok \in PageOutcomes(task[r].tgt, E) :
         CommitTask(r, LoginOpDone(St(task[r]), ok))

TaskScrapeNavDone(r, E) ==
    /\ NoneSettled
    /\ task[r].pc = "scrape_nav"
    /\ \E ok \in PageOutcomes(task[r].tgt, E) :
         CommitTask(r, ScrapeNavDone(St(task[r]), ok))

TaskEvaluateDone(r, E) ==
    /\ NoneSettled
    /\ task[r].pc = "evaluate"
    /\ \E ok \in PageOutcomes(task[r].tgt, E) :
         \E raw \in (IF ok THEN RawLists ELSE {<<>>}) :
            CommitTask(r, EvaluateDone(St(task[r]), ok, raw))

TaskClosePageDone(r, E) ==
    /\ NoneSettled
    /\ task[r].pc = "closePage"
    /\ \E ok \in E : CommitTask(r, ClosePageDone(St(task[r]), ok))

TaskCloseBrowserDone(r, E) ==
    /\ NoneSettled
    /\ task[r].pc = "closeBrowser"
    /\ \E ok \in E : CommitTask(r, CloseBrowserDone(St(task[r]), ok))

\* The caller has received the outcome of its call: the call's record is
\* dropped
Return(r) ==
    /\ task[r].pc = "settled"
    /\ CommitTask(r, St([IdleTask EXCEPT !.pc = "returned"]))

\* A caller invokes cancelTask (each call in flight records that it happened)
CancelTask(c) ==
    /\ NoneSettled
    /\ cancel[c].pc = "idle"
    /\ \A q \in 1..(c - 1) : cancel[q].pc # "idle"
    /\ LET s == CancelTaskCall(St(cancel[c]))
       IN CommitShared(s,
             [r \in Runs |-> IF InFlight(task[r])
                             THEN [task[r] EXCEPT !.cancelled = TRUE] ELSE task[r]],
             [cancel EXCEPT ![c] = s.t])

CancelClosePageDone(c, E) ==
    /\ NoneSettled
    /\ cancel[c].pc = "closePage"
    /\ \E ok \in E : CommitCancel(c, ClosePageDone(St(cancel[c]), ok))

CancelCloseBrowserDone(c, E) ==
    /\ NoneSettled
    /\ cancel[c].pc = "closeBrowser"
    /\ \E ok \in E : CommitCancel(c, CloseBrowserDone(St(cancel[c]), ok))

\* A caller invokes downloadService.downloadFiles directly
DownloadFiles(r, E) ==
    /\ NoneSettled
    /\ task[r].pc = "idle"
    /\ \A q \in 1..(r - 1) : task[q].pc # "idle"
    /\ \E entries \in EntryLists : \E dirOk \in E :
         CommitTask(r, DownloadFilesCall(St([task[r] EXCEPT !.direct = TRUE]),
                                         entries, dirOk))

TaskLoopStep(r, E) ==
    /\ NoneSettled
    /\ task[r].pc = "loop"
    /\ \E touchOk \in E : \E unlinkOk \in E : \E dbOk \in E :
         CommitTask(r, LoopStep(St(task[r]), touchOk, unlinkOk, dbOk))

TaskHttpDone(r, E) ==
    /\ NoneSettled
    /\ task[r].pc = "http"
    /\ \E resp \in {"ok"} \cup (IF FALSE \in E THEN {"status", "neterr"} ELSE {}) :
         \E unlinkOk \in E :
            CommitTask(r, HttpDone(St(task[r]), resp, unlinkOk))

TaskPipelineDone(r, E) ==
    /\ NoneSettled
    /\ task[r].pc = "pipe"
    /\ \E streamOk \in E : \E written \in {"empty", "full"} : \E unlinkOk \in E :
         CommitTask(r, PipelineDone(St(task[r]), streamOk, written, unlinkOk))

\* Steps of executeTask that follow a successful cookie read.  No reachable
\* state enables them (see the cookie read of GetCookies), so no
\* specification below lists them.
TaskCookiesDone(r, E) ==
    /\ NoneSettled
    /\ task[r].pc = "cookies"
    /\ \E ok \in PageOutcomes(task[r].tgt, E) : \E dirOk \in E :
         CommitTask(r, CookiesDone(St(task[r]), ok, dirOk))

TaskSaveDataDone(r, E) ==
    /\ NoneSettled
    /\ task[r].pc = "saveData"
    /\ \E ok \in E : CommitTask(r, SaveDataDone(St(task[r]), ok))

TaskSaveErrorsDone(r, E) ==
    /\ NoneSettled
    /\ task[r].pc = "saveErrors"
    /\ \E ok \in E : CommitTask(r, SaveErrorsDone(St(task[r]), ok))

\* The result arrays downloadFiles can return for the list `es` when the
\* entries with index in S were downloaded and the others failed
Downloaded(es, S) ==
    LET sel == SelectSeq([k \in 1..Len(es) |-> k], LAMBDA k : k \in S)
    IN [j \in 1..Len(sel) |->
          [idx |-> sel[j], id |-> es[sel[j]].id,
           filename |-> GenerateFilename(es[sel[j]].slug)]]

NotDownloaded(es, S) ==
    LET sel == SelectSeq([k \in 1..Len(es) |-> k], LAMBDA k : k \notin S)
    IN [j \in 1..Len(sel) |->
          [idx |-> sel[j], id |-> es[sel[j]].id,
           error |-> IF MissingRequiredFields(es[sel[j]]) THEN "MissingFields"
                     ELSE "HttpStatusError"]]

\* The argument pairs (successful, failed) of _saveResults
SaveInputs ==
    UNION { { <<Downloaded(es, S), NotDownloaded(es, S)>> :
                S \in SUBSET { k \in 1..Len(es) : ~MissingRequiredFields(es[k]) } } :
            es \in EntryLists }

\* A caller invokes _saveResults(successful, failed) directly
CallSaveResults(r, E) ==
    /\ NoneSettled
    /\ task[r].pc = "idle"
    /\ \A q \in 1..(r - 1) : task[q].pc # "idle"
    /\ \E in \in SaveInputs : \E dbOk \in E :
         CommitTask(r, SaveResults(St([task[r] EXCEPT !.direct = TRUE,
                                                      !.successful = in[1],
                                                      !.failed = in[2]]), dbOk))

\* The locals of a ScraperService method that a caller invokes directly as
\* call r; ops records the method
DirectCall(r, method) == St([task[r] EXCEPT !.direct = TRUE, !.ops = {method}])

\* Call r can be made now
Callable(r) ==
    /\ NoneSettled
    /\ task[r].pc = "idle"
    /\ \A q \in 1..(r - 1) : task[q].pc # "idle"

\* A caller invokes scraperService.initialize()
CallInitialize(r) ==
    Callable(r) /\ CommitTask(r, Launch(DirectCall(r, "initialize")))

\* A caller invokes scraperService.login()
CallLogin(r) ==
    Callable(r) /\ CommitTask(r, PageOp(DirectCall(r, "login"), LoginOps[1], "LoginFailed"))

\* A caller invokes scraperService.scrapeChangelogEntries(date)
CallScrapeChangelogEntries(r) ==
    Callable(r)
    /\ CommitTask(r, ScrapeChangelogEntries(DirectCall(r, "scrapeChangelogEntries")))

\* A caller invokes scraperService.getCookies()
CallGetCookies(r) ==
    Callable(r) /\ CommitTask(r, GetCookies(DirectCall(r, "getCookies")))

\* A caller invokes scraperService.close()
CallClose(r) ==
    /\ Callable(r)
    /\ LET c == ScraperClose(DirectCall(r, "close"), "direct")
       IN CommitTask(r, IF c.t.pc = "closed" THEN AfterClose(c, TRUE) ELSE c)

\* The service under executeTask and cancelTask calls, every I/O operation
\* free to fail
Next ==
    \/ \E r \in 1..MaxRuns : ExecuteTask(r, BOOLEAN)
    \/ \E r \in Runs : TaskLaunchDone(r, BOOLEAN)
    \/ \E r \in Runs : TaskNewPageDone(r, BOOLEAN)
    \/ \E r \in Runs : TaskLoginOpDone(r, BOOLEAN)
    \/ \E r \in Runs : TaskScrapeNavDone(r, BOOLEAN)
    \/ \E r \in Runs : TaskEvaluateDone(r, BOOLEAN)
    \/ \E r \in Runs : TaskClosePageDone(r, BOOLEAN)
    \/ \E r \in Runs : TaskCloseBrowserDone(r, BOOLEAN)
    \/ \E r \in Runs : Return(r)
    \/ \E c \in Cancels : CancelTask(c)
    \/ \E c \in Cancels : CancelClosePageDone(c, BOOLEAN)
    \/ \E c \in Cancels : CancelCloseBrowserDone(c, BOOLEAN)

Spec == Init /\ [][Next]_vars

\* The same service in an environment where no I/O operation on a live
\* target fails (more calls are followed)
NextReliable ==
    \/ \E r \in 1..MaxReliableRuns : ExecuteTask(r, {TRUE})
    \/ \E r \in Runs : TaskLaunchDone(r, {TRUE})
    \/ \E r \in Runs : TaskNewPageDone(r, {TRUE})
    \/ \E r \in Runs : TaskLoginOpDone(r, {TRUE})
    \/ \E r \in Runs : TaskScrapeNavDone(r, {TRUE})
    \/ \E r \in Runs : TaskEvaluateDone(r, {TRUE})
    \/ \E r \in Runs : TaskClosePageDone(r, {TRUE})
    \/ \E r \in Runs : TaskCloseBrowserDone(r, {TRUE})
    \/ \E r \in Runs : Return(r)
    \/ \E c \in Cancels : CancelTask(c)
    \/ \E c \in Cancels : CancelClosePageDone(c, {TRUE})
    \/ \E c \in Cancels : CancelCloseBrowserDone(c, {TRUE})

SpecReliable == Init /\ [][NextReliable]_vars

\* No call is pending
Quiet == \A q \in Runs : task[q].pc \in {"idle", "returned"}

\* The orchestrator and the download service under callers that make one
\* call at a time, executeTask or downloadFiles, and call cancelTask at any
\* time, every I/O operation free to fail
NextSequential ==
    \/ Quiet /\ \E r \in 1..MaxSeqCalls : ExecuteTask(r, BOOLEAN)
    \/ Quiet /\ \E r \in 1..MaxSeqCalls : DownloadFiles(r, BOOLEAN)
    \/ \E r \in Runs : TaskLaunchDone(r, BOOLEAN)
    \/ \E r \in Runs : TaskNewPageDone(r, BOOLEAN)
    \/ \E r \in Runs : TaskLoginOpDone(r, BOOLEAN)
    \/ \E r \in Runs : TaskScrapeNavDone(r, BOOLEAN)
    \/ \E r \in Runs : TaskEvaluateDone(r, BOOLEAN)
    \/ \E r \in Runs : TaskClosePageDone(r, BOOLEAN)
    \/ \E r \in Runs : TaskCloseBrowserDone(r, BOOLEAN)
    \/ \E r \in Runs : TaskLoopStep(r, BOOLEAN)
    \/ \E r \in Runs : TaskHttpDone(r, BOOLEAN)
    \/ \E r \in Runs : TaskPipelineDone(r, BOOLEAN)
    \/ \E r \in Runs : Return(r)
    \/ \E c \in Cancels : CancelTask(c)
    \/ \E c \in Cancels : CancelClosePageDone(c, BOOLEAN)
    \/ \E c \in Cancels : CancelCloseBrowserDone(c, BOOLEAN)

SpecSequential == Init /\ [][NextSequential]_vars

\* The persistence step on its own: callers that call _saveResults one call
\* at a time, every write free to fail
NextPersistence ==
    \/ Quiet /\ \E r \in 1..MaxSaves : CallSaveResults(r, BOOLEAN)
    \/ \E r \in Runs : TaskSaveDataDone(r, BOOLEAN)
    \/ \E r \in Runs : TaskSaveErrorsDone(r, BOOLEAN)
    \/ \E r \in Runs : Return(r)

SpecPersistence == Init /\ [][NextPersistence]_vars

\* The automation session on its own: callers that call the methods of
\* ScraperService one call at a time, every I/O operation free to fail
NextSession ==
    \/ Quiet /\ \E r \in 1..MaxSessionCalls : CallInitialize(r)
    \/ Quiet /\ \E r \in 1..MaxSessionCalls : CallLogin(r)
    \/ Quiet /\ \E r \in 1..MaxSessionCalls : CallScrapeChangelogEntries(r)
    \/ Quiet /\ \E r \in 1..MaxSessionCalls : CallGetCookies(r)
    \/ Quiet /\ \E r \in 1..MaxSessionCalls : CallClose(r)
    \/ \E r \in Runs : TaskLaunchDone(r, BOOLEAN)
    \/ \E r \in Runs : TaskNewPageDone(r, BOOLEAN)
    \/ \E r \in Runs : TaskLoginOpDone(r, BOOLEAN)
    \/ \E r \in Runs : TaskScrapeNavDone(r, BOOLEAN)
    \/ \E r \in Runs : TaskEvaluateDone(r, BOOLEAN)
    \/ \E r \in Runs : TaskCookiesDone(r, BOOLEAN)
    \/ \E r \in Runs : TaskClosePageDone(r, BOOLEAN)
    \/ \E r \in Runs : TaskCloseBrowserDone(r, BOOLEAN)
    \/ \E r \in Runs : Return(r)

SpecSession == Init /\ [][NextSession]_vars

\* _processEntries on its own: a caller holds a list of raw rows
InitProcessing ==
    /\ isRunning = FALSE
    /\ cleanupTimeout = 0
    /\ isLoggedIn = FALSE
    /\ authenticated = FALSE
    /\ loggedInPages = {}
    /\ browser = 0
    /\ page = 0
    /\ downloadStats = ZeroStats
    /\ openBrowsers = {}
    /\ openPages = {}
    /\ timers = {}
    /\ files = [f \in Filenames |-> "absent"]
    /\ stores = [database |-> <<>>, dataCsv |-> <<>>, errorCsv |-> <<>>]
    /\ task = [r \in Runs |-> IdleTask]
    /\ cancel = [c \in Cancels |-> IdleCancel]
    /\ \E rawEntries \in RawInputs :
         processing = [NotProcessing EXCEPT !.rawEntries = rawEntries]
    /\ utils = NoUtilsCall
    /\ estimate = NotEstimating
    /\ extraction = NotExtracting
    /\ rateLimit = NoTraffic
    /\ refresh = AppIdle

\* The caller invokes scraperService._processEntries(rawEntries)
CallProcessEntries ==
    /\ ~processing.returned
    /\ processing' = [processing EXCEPT !.processedEntries = ProcessEntries(processing.rawEntries),
                                        !.returned = TRUE]
    /\ UNCHANGED <<isRunning, cleanupTimeout, isLoggedIn, authenticated, loggedInPages,
                   browser, page,
                   downloadStats, openBrowsers, openPages, timers, files, stores,
                   task, cancel, utils, estimate, extraction, rateLimit, refresh>>

NextProcessing == CallProcessEntries

SpecProcessing == InitProcessing /\ [][NextProcessing]_vars

\* The static functions of Utils on their own: a caller holds an argument
\* for one of them
InitUtils ==
    /\ isRunning = FALSE
    /\ cleanupTimeout = 0
    /\ isLoggedIn = FALSE
    /\ authenticated = FALSE
    /\ loggedInPages = {}
    /\ browser = 0
    /\ page = 0
    /\ downloadStats = ZeroStats
    /\ openBrowsers = {}
    /\ openPages = {}
    /\ timers = {}
    /\ files = [f \in Filenames |-> "absent"]
    /\ stores = [database |-> <<>>, dataCsv |-> <<>>, errorCsv |-> <<>>]
    /\ task = [r \in Runs |-> IdleTask]
    /\ cancel = [c \in Cancels |-> IdleCancel]
    /\ processing = NotProcessing
    /\ \/ \E title \in Titles :
            utils = [NoUtilsCall EXCEPT !.fn = "extractVersionFromTitle", !.arg = title]
       \/ \E url \in Urls :
            utils = [NoUtilsCall EXCEPT !.fn = "extractUrlInfo", !.arg = url]
       \/ \E slug \in Slugs :
            utils = [NoUtilsCall EXCEPT !.fn = "generateFilename", !.arg = slug]
    /\ estimate = NotEstimating
    /\ extraction = NotExtracting
    /\ rateLimit = NoTraffic
    /\ refresh = AppIdle

\* The caller's call returns `result`
UtilsReturn(fn, result) ==
    /\ utils.fn = fn /\ ~utils.returned
    /\ utils' = [utils EXCEPT !.result = result, !.returned = TRUE]
    /\ UNCHANGED <<isRunning, cleanupTimeout, isLoggedIn, authenticated, loggedInPages,
                   browser, page,
                   downloadStats, openBrowsers, openPages, timers, files, stores,
                   task, cancel, processing, estimate, extraction, rateLimit,
                   refresh>>

CallExtractVersionFromTitle ==
    UtilsReturn("extractVersionFromTitle", ExtractVersionFromTitle(utils.arg))

CallExtractUrlInfo == UtilsReturn("extractUrlInfo", ExtractUrlInfo(utils.arg))

CallGenerateFilename == UtilsReturn("generateFilename", GenerateFilename(utils.arg))

NextUtils ==
    \/ CallExtractVersionFromTitle
    \/ CallExtractUrlInfo
    \/ CallGenerateFilename

SpecUtils == InitUtils /\ [][NextUtils]_vars

\* ------------------------------------------------------------ properties
Settled(r) == task[r].pc = "settled"

\* A settled executeTask call that had been admitted
SettledRun(r) == Settled(r) /\ ~task[r].direct /\ task[r].out # "AlreadyRunning"

\* A settled direct call of downloadFiles
SettledDownload(r) == Settled(r) /\ task[r].direct

\* The indices of the input entries that a result array holds
Indices(items) == { items[k].idx : k \in 1..Len(items) }

\* executeTask, lines 43 and 64: the totalEntries field of a TaskResult
TotalEntries(t) == IF t.out = "NoEntries" THEN 0 ELSE Len(t.entries)

\* What the environment answered last in the call t, for entry k, when
\* _downloadSingleFile has just finished for that entry
JustFinished(t, k, what) ==
    /\ t.pc = "loop" /\ t.i = k + 1
    /\ t.answers # <<>>
    /\ t.answers[Len(t.answers)] = [idx |-> k, what |-> what]

\* ScheduledTaskService.getLastResults: the content of the main store
GetLastResults == stores.database

\* A settled call whose persistence step returned normally
Persisted(r) ==
    /\ Settled(r) /\ "persist" \in task[r].ops
    /\ task[r].out \in {"Completed", "Saved"}

\* A cancelTask call made while a run was active has returned
CancelReturned == \E c \in Cancels : cancel[c].pc = "done" /\ ~cancel[c].noop

\* The call t is closing the session or has settled
TearingDown(t) == t.pc \in {"closePage", "closeBrowser", "settled"}

\* The file at the target path of entry k of call t
TargetFile(t, k) == files[GenerateFilename(t.entries[k].slug)]

\* C1: an executeTask call made while an earlier call is in flight, with no
\* cancelTask call made since that earlier call, is rejected as already
\* running and changes neither isRunning, nor the session, nor the download
\* counters, nor the pending cleanup.
C1_SecondCallRejected ==
    [][\A r \in Runs :
         ( /\ task[r].pc = "idle"
           /\ task'[r].pc # "idle"
           /\ ~task'[r].direct
           /\ \E q \in Runs : InFlight(task[q]) /\ ~task[q].cancelled )
         => ( /\ task'[r].pc = "settled"
              /\ task'[r].out = "AlreadyRunning"
              /\ UNCHANGED <<isRunning, isLoggedIn, browser, page, openBrowsers,
                             openPages, downloadStats, cleanupTimeout, timers>> )]_vars

\* C2: at most one executeTask run is in flight at any time, whatever
\* cancelTask calls are made.
C2_SingleFlight == Cardinality({ r \in Runs : InFlight(task[r]) }) <= 1

\* C3: a run whose scrapeForDate returned at least one entry reads the
\* cookies in the authenticated state and hands the entries to downloadFiles.
C3_CookiesReadAndDownloadInvoked ==
    \A r \in Runs :
        (SettledRun(r) /\ task[r].scraped /\ Len(task[r].entries) > 0)
        => ( /\ task[r].out # "NotLoggedIn"
             /\ {"cookies", "download"} \subseteq task[r].ops )

\* C4: a run with at least one retained entry, whose session steps and
\* persistence succeed, resolves with a TaskResult whose failed array lists
\* every entry whose download failed, with its error.
C4_ResolvesWithFailedEntries ==
    \A r \in Runs :
        ( /\ SettledRun(r) /\ task[r].scraped /\ Len(task[r].entries) > 0
          /\ task[r].out \notin {"CookieError", "DirectoryError", "PersistenceFailure"} )
        => ( /\ task[r].out = "Completed"
             /\ Indices(task[r].successful) \cup Indices(task[r].failed)
                  = 1..Len(task[r].entries)
             /\ \A k \in 1..Len(task[r].failed) : task[r].failed[k].error # "" )

\* C5: downloadFiles returns arrays whose lengths add up to the number of
\* input entries, and every TaskResult executeTask resolves with has
\* successful.length + failed.length = totalEntries.
C5_ResultLengths ==
    \A r \in Runs :
        /\ (SettledDownload(r) /\ task[r].out = "Resolved")
           => Len(task[r].successful) + Len(task[r].failed) = Len(task[r].entries)
        /\ (SettledRun(r) /\ task[r].out \in Results)
           => Len(task[r].successful) + Len(task[r].failed) = TotalEntries(task[r])

C5_Witness ==
    \E r \in Runs :
        /\ SettledDownload(r) /\ task[r].out = "Resolved"
        /\ Len(task[r].entries) = MaxEntries
        /\ Len(task[r].successful) = 1
        /\ Len(task[r].failed) = MaxEntries - 1
        /\ task[r].successful[1].idx = 1

C7_FlagClearedOnSettle == \A r \in Runs : SettledRun(r) => ~isRunning

C7_Witness ==
    \E r \in Runs : SettledRun(r) /\ task[r].out = "CloseError" /\ ~isRunning

\* C8: when an executeTask call settles, no browser and no page that the run
\* opened is still open.
C8_NothingLeftOpen ==
    \A r \in Runs :
        SettledRun(r) =>
            /\ \A b \in openBrowsers : Launcher(b) # r
            /\ \A p \in openPages : Launcher(p) # r

\* C9: in downloadFiles every input entry is attempted exactly once, one at
\* a time and in list order, whatever entries fail, and downloadFiles
\* resolves with the results unless preparing the directory failed.
C9_EveryEntryAttempted ==
    \A r \in Runs : task[r].direct =>
        /\ \A k \in 1..Len(task[r].tried) : task[r].tried[k] = k
        /\ task[r].pc \in {"http", "pipe"}
           => ( /\ Len(task[r].tried) = task[r].i
                /\ task[r].reqs # <<>>
                /\ task[r].reqs[Len(task[r].reqs)] = task[r].i )
        /\ task[r].pc = "loop" => Len(task[r].tried) = task[r].i - 1
        /\ (Settled(r) /\ task[r].out # "DirectoryError")
           => ( /\ task[r].out = "Resolved"
                /\ Len(task[r].tried) = Len(task[r].entries) )

C9_Witness ==
    \E r \in Runs :
        /\ SettledDownload(r) /\ task[r].out = "Resolved"
        /\ Len(task[r].entries) = MaxEntries
        /\ task[r].failed # <<>> /\ task[r].failed[1].idx = 1
        /\ task[r].failed[1].error = "HttpStatusError"
        /\ task[r].successful # <<>>
        /\ task[r].successful[Len(task[r].successful)].idx = MaxEntries

\* C10: after downloadFiles returns, every input entry is in exactly one of
\* successful and failed; every failed entry carries an error string and no
\* successful entry carries one.
C10_ExactlyOneArray ==
    \A r \in Runs : (SettledDownload(r) /\ task[r].out = "Resolved") =>
        LET t == task[r]
        IN /\ \A k \in 1..Len(t.entries) :
                Cardinality({ j \in 1..Len(t.successful) : t.successful[j].idx = k })
                + Cardinality({ j \in 1..Len(t.failed) : t.failed[j].idx = k }) = 1
           /\ \A j \in 1..Len(t.successful) :
                /\ t.successful[j].id = t.entries[t.successful[j].idx].id
                /\ "error" \notin DOMAIN t.successful[j]
           /\ \A j \in 1..Len(t.failed) :
                /\ t.failed[j].id = t.entries[t.failed[j].idx].id
                /\ "error" \in DOMAIN t.failed[j]
                /\ t.failed[j].error # ""

C10_Witness ==
    \E r \in Runs :
        /\ SettledDownload(r) /\ task[r].out = "Resolved"
        /\ Len(task[r].failed) = MaxEntries
        /\ task[r].failed[1].error = "MissingFields"
        /\ task[r].failed[MaxEntries].error = "EmptyDownload"

\* C11: an entry whose GET answers with a status other than 200 ends in the
\* failed array, and when its _downloadSingleFile call has finished no file
\* exists at its target path.
C11_Non200FailedNoFile ==
    \A r \in Runs : \A k \in 1..Len(task[r].entries) :
        JustFinished(task[r], k, "status")
        => ( /\ k \in Indices(task[r].failed)
             /\ k \notin Indices(task[r].successful)
             /\ TargetFile(task[r], k) = "absent" )

\* C12: an entry whose response body streams zero bytes to the target file
\* ends in the failed array, never in successful, and the zero-byte file is
\* removed from the download directory.
C12_ZeroBytesFailedFileRemoved ==
    \A r \in Runs : \A k \in 1..Len(task[r].entries) :
        JustFinished(task[r], k, "zeroBytes")
        => ( /\ k \in Indices(task[r].failed)
             /\ k \notin Indices(task[r].successful)
             /\ TargetFile(task[r], k) = "absent" )

\* C13: in every state the download counters are non-negative with
\* successful + failed <= total, and when a downloadFiles call returns
\* successful + failed = total.
C13_CountersConsistent ==
    /\ downloadStats.successful >= 0
    /\ downloadStats.failed >= 0
    /\ downloadStats.total >= 0
    /\ downloadStats.successful + downloadStats.failed <= downloadStats.total
    /\ GetStatus.downloadStats = downloadStats
    /\ \A r \in Runs :
         (task[r].pc = "settled" /\ "download" \in task[r].ops
            /\ task[r].out \in Results \cup {"Resolved"})
         => downloadStats.successful + downloadStats.failed = downloadStats.total

C13_Witness ==
    \E r \in Runs :
        /\ SettledDownload(r) /\ task[r].out = "Resolved"
        /\ downloadStats = [successful |-> 1, failed |-> MaxEntries - 1, total |-> MaxEntries]
        /\ \E c \in Cancels : cancel[c].pc = "done"
        /\ \E q \in Runs : task[q].pc = "returned"

\* C15: after a call whose persistence step completed normally, the main
\* store and the data export hold exactly that call's successful entries
\* and the error export exactly its failed entries, also when one of the two
\* arrays is empty; getLastResults returns the successful entries.
C15_StoresHoldThisRun ==
    \A r \in Runs :
        Persisted(r)
        => ( /\ stores.database = Ids(task[r].successful)
             /\ stores.dataCsv = Ids(task[r].successful)
             /\ stores.errorCsv = Ids(task[r].failed)
             /\ GetLastResults = Ids(task[r].successful) )

\* C17: a cancelTask call made while no run is active changes nothing:
\* isRunning, the session state (login flag, browser, page and what is
\* open), the download counters and the cleanup timer are as before the call.
C17_CancelIdleIsNoOp ==
    [][ (/\ ~isRunning
         /\ \E c \in Cancels : cancel[c].pc = "idle" /\ cancel'[c].pc # "idle")
        => /\ UNCHANGED <<isRunning, isLoggedIn, browser, page, openBrowsers, openPages,
                          downloadStats, cleanupTimeout, timers>>
           /\ \A c \in Cancels : cancel[c].pc = "idle" => cancel'[c].pc \in {"idle", "done"}
      ]_vars

\* a cancelTask call has returned as a no-op and left behind the session of
\* an earlier failed teardown and the counters of an earlier download
C17_Witness ==
    /\ \E c \in Cancels : cancel[c].pc = "done" /\ cancel[c].noop
    /\ ~isRunning
    /\ isLoggedIn /\ browser # 0
    /\ downloadStats.total > 0

\* C18: once cancelTask has returned during an active run, whenever control
\* returns to the cancelled run it starts no further pipeline step: its next
\* step is part of the teardown or settles the call.
C18_CancelledRunOnlyTearsDown ==
    [][\A r \in Runs :
         ( /\ CancelReturned
           /\ InFlight(task[r]) /\ task[r].cancelled
           /\ task'[r] # task[r] )
         => TearingDown(task'[r])]_vars

\* C19: scrapeChangelogEntries and getCookies, called before any successful
\* login or after close, fail at once with the not-authenticated error: no
\* browser operation is awaited and the session state is unchanged.
C19_GuardedUnlessAuthenticated ==
    [][\A r \in Runs :
         ( /\ ~authenticated
           /\ task[r].pc = "idle" /\ task'[r].pc # "idle"
           /\ task'[r].ops \cap {"scrapeChangelogEntries", "getCookies"} # {} )
         => ( /\ task'[r].pc = "settled"
              /\ task'[r].out = "NotLoggedIn"
              /\ UNCHANGED <<isLoggedIn, browser, page, openBrowsers, openPages>> )]_vars

\* The positions of the raw entries whose title yields a version
Versioned(rawEntries) ==
    { k \in 1..Len(rawEntries) : HasVersion(rawEntries[k].productName) }

\* C20: _processEntries returns exactly the raw entries whose title yields a
\* version, in their original order; an entry whose title holds no digit has
\* no version, is not retained, and is not counted in totalEntries (the
\* length of the list returned).
C20_RetainsExactlyVersioned ==
    processing.returned
    => LET raw == processing.rawEntries
           out == processing.processedEntries
       IN /\ Len(out) = Cardinality(Versioned(raw))
          /\ \E f \in [1..Len(out) -> Versioned(raw)] :
                /\ \A i, j \in 1..Len(out) : i < j => f[i] < f[j]
                /\ \A j \in 1..Len(out) : out[j] = raw[f[j]]
          /\ \A k \in 1..Len(raw) :
                NoDigit(raw[k].productName)
                => /\ k \notin Versioned(raw)
                   /\ \A j \in 1..Len(out) : out[j].id # raw[k].id
          /\ Len(out) <= Cardinality({ k \in 1..Len(raw) : ~NoDigit(raw[k].productName) })

\* _processEntries has returned for three rows: it kept the first and the
\* third, in that order, and dropped a row without a digit between them
C20_Witness ==
    /\ processing.returned
    /\ Len(processing.rawEntries) = 3
    /\ NoDigit(processing.rawEntries[2].productName)
    /\ processing.processedEntries =
         <<processing.rawEntries[1], processing.rawEntries[3]>>
    /\ processing.rawEntries[1] # processing.rawEntries[3]

\* The positions at which a word of the title begins that is made of 'v'
\* followed by 1 to 4 dot-separated groups of digits
VersionTokens(title) ==
    { i \in 1..Len(title) :
        /\ i = 1 \/ title[i - 1] = " "
        /\ MatchAt(title, i) > 0
        /\ i + MatchAt(title, i) > Len(title) \/ title[i + MatchAt(title, i)] = " " }

\* The title without positions a..b
Without(title, a, b) == SubSeq(title, 1, a - 1) \o SubSeq(title, b + 1, Len(title))

\* The title without the version token at i and the space that separates it
\* from its neighbour (the space before it, or the one after it)
NamesWithout(title, i) ==
    LET e == i + MatchAt(title, i) - 1
    IN (IF i > 1 THEN {Without(title, i - 1, e)} ELSE {})
       \cup (IF e < Len(title) THEN {Without(title, i, e + 1)} ELSE {})
       \cup (IF i = 1 /\ e = Len(title) THEN {<<>>} ELSE {})

\* C21: for a title that holds a version token, extractVersionFromTitle
\* returns the numeric portion of that token as version and the title with
\* that token and its separating space removed as clean name.
C21_VersionAndCleanName ==
    ( /\ utils.returned /\ utils.fn = "extractVersionFromTitle"
      /\ VersionTokens(utils.arg) # {} )
    => \E i \in VersionTokens(utils.arg) :
          /\ utils.result.hasVersion
          /\ utils.result.version =
                SubSeq(utils.arg, i + 1, i + MatchAt(utils.arg, i) - 1)
          /\ utils.result.cleanTitle \in NamesWithout(utils.arg, i)

\* The path of an absolute URL: what stands between its host and its query
\* string, from the first "/" after the origin on
PathOf(url) ==
    LET rest == SubSeq(url, Len(Origin) + 1, Len(url))
        q == Positions(rest, "?")
        noQuery == IF q = {} THEN rest ELSE SubSeq(rest, 1, Least(q) - 1)
        at == Positions(noQuery, "/")
    IN IF at = {} THEN <<>> ELSE SubSeq(noQuery, Least(at), Len(noQuery))

\* The last non-empty segment of a path: what stands after the last "/"
\* once the slashes that end the path are dropped
RECURSIVE LastSegment(_)
LastSegment(path) ==
    IF path # <<>> /\ path[Len(path)] = "/" THEN LastSegment(SubSeq(path, 1, Len(path) - 1))
    ELSE LastPart(path, "/")

\* The path has a segment after the host
HasSegment(url) == LastSegment(PathOf(url)) # <<>>

\* C22: extractUrlInfo returns the last non-empty path segment of the URL,
\* without the query string, as slug, and the value of the product_id
\* parameter (or nothing) as productId; a malformed URL gives an empty slug
\* and an empty productId.
C22_SlugAndProductId ==
    (utils.returned /\ utils.fn = "extractUrlInfo")
    => /\ ~ParsesAsUrl(utils.arg)
          => utils.result = [slug |-> <<>>, productId |-> <<>>]
       /\ ParsesAsUrl(utils.arg)
          => utils.result.productId = ProductIdOf(QueryOf(utils.arg))
       /\ (ParsesAsUrl(utils.arg) /\ HasSegment(utils.arg))
          => utils.result.slug = LastSegment(PathOf(utils.arg))

\* The slug without a trailing "-download" and without a leading "download-"
StripAffixes(slug) ==
    LET n == Len(slug)
        a == IF n >= 2 /\ SubSeq(slug, n - 1, n) = <<"-", "download">>
             THEN SubSeq(slug, 1, n - 2) ELSE slug
    IN IF Len(a) >= 2 /\ SubSeq(a, 1, 2) = <<"download", "-">>
       THEN SubSeq(a, 3, Len(a)) ELSE a

\* C23: generateFilename removes only a trailing "-download" and a leading
\* "download-" from the slug and appends ".zip"; a "download-" elsewhere in
\* the slug stays.
C23_OnlyAffixesRemoved ==
    (utils.returned /\ utils.fn = "generateFilename")
    => utils.result = Append(StripAffixes(utils.arg), ".zip")

\* A session resource is open or being acquired
SessionHeld ==
    \/ openBrowsers # {} \/ openPages # {}
    \/ \E r \in Runs : task[r].pc \in {"launch", "newPage"}

\* C24: under any interleaving of executeTask and cancelTask, a browser
\* session is open or being acquired only while isRunning is true.
C24_SessionOnlyWhileRunning == SessionHeld => isRunning

\* C25: within one executeTask run, open and authenticate are performed
\* once (the session is not opened again while the run goes on), and the
\* session is closed by the run only after its download step.
C25_SessionOrder ==
    \A r \in Runs :
        InFlight(task[r])
        => /\ ~(task[r].pc = "launch" /\ task[r].phase = 2)
           /\ (task[r].pc \in {"closePage", "closeBrowser"} /\ task[r].site = "sfd"
                 /\ task[r].err = "" /\ task[r].entries # <<>>)
              => "download" \in task[r].ops

\* The session is Closed: no page, no browser, not logged in
SessionClosed == page = 0 /\ browser = 0 /\ ~isLoggedIn

\* A direct call of the ScraperService method `method` has settled
SettledCall(r, method) == Settled(r) /\ method \in task[r].ops /\ task[r].phase = 0

\* C26: close() never propagates an error: whether or not closing the page
\* or the browser fails, the caller sees no exception and the session ends
\* Closed with isLoggedIn false.
C26_CloseNeverThrows ==
    \A r \in Runs :
        SettledCall(r, "close") => (task[r].out = "Resolved" /\ SessionClosed)

\* C27: close() is idempotent: in whatever session state it is called, also
\* on a session never opened, it leaves the session Closed; and a close()
\* called on a Closed session performs no browser operation.
C27_CloseIdempotent ==
    /\ [](\A r \in Runs : SettledCall(r, "close") => SessionClosed)
    /\ [][\A r \in Runs :
            ( /\ SessionClosed
              /\ task[r].pc = "idle" /\ task'[r].pc # "idle"
              /\ "close" \in task'[r].ops )
            => ( /\ task'[r].pc = "settled" /\ task'[r].out = "Resolved"
                 /\ UNCHANGED <<isLoggedIn, browser, page, openBrowsers, openPages>> )]_vars

\* C29: once an executeTask run has been admitted, getStatus().downloadStats
\* reports no counts left by earlier work: until the run's own download step
\* starts (and after the run settled without one) the counters are zero.
C29_CountersResetAtAdmission ==
    \A r \in Runs :
        ( /\ InFlight(task[r]) \/ SettledRun(r)
          /\ "download" \notin task[r].ops )
        => GetStatus.downloadStats = ZeroStats

\* The run r has failed in the validation of the download directory
DirectoryFailed(r) ==
    /\ ~task[r].direct
    /\ \/ InFlight(task[r]) /\ task[r].pend = "DirectoryError"
       \/ Settled(r) /\ task[r].out = "DirectoryError"

\* C30: a run whose download directory is not writable launches no browser
\* and attempts no login, only tears down, rejects with the
\* directory-validation error, and isRunning is false once it has settled.
C30_DirectoryFailureRejects ==
    \A r \in Runs :
        DirectoryFailed(r)
        => /\ task[r].ops \cap {"launch", "login"} = {}
           /\ TearingDown(task[r])
           /\ Settled(r) => ~isRunning

\* a run has been rejected with the directory-validation error while the
\* session of an earlier run was still open, and that session is closed now
C30_Witness ==
    \E r \in Runs :
        /\ Settled(r) /\ task[r].out = "DirectoryError" /\ ~task[r].direct
        /\ task[r].ops = {}
        /\ r > 1
        /\ ~isRunning /\ browser = 0

\* The errors with which opening the session (launch, createPage) or
\* authenticating (login) fails
SessionFailures == {"LaunchError", "PageError", "LoginFailed"}

\* The error scrapeForDate holds while its finally block closes the
\* session, or the error executeTask holds in its own finally block, is a
\* session failure
SessionFailed(t) ==
    /\ ~t.direct
    /\ InFlight(t)
    /\ t.err \in SessionFailures \/ t.pend \in SessionFailures

\* C31: when opening the session or authenticating has failed in a run, the
\* error the run is about to reject with is that failure, and the run has made
\* no download and written nothing: the stores, the download directory and
\* the counters are as they were.
C31_SessionFailureAborts ==
    \A r \in Runs :
        SessionFailed(task[r])
        => /\ task[r].pend # "" => task[r].pend \in SessionFailures
           /\ task[r].ops \cap {"download", "persist", "save"} = {}
           /\ downloadStats = ZeroStats
           /\ stores = [database |-> <<>>, dataCsv |-> <<>>, errorCsv |-> <<>>]
           /\ \A f \in Filenames : files[f] = "absent"

\* The loop of call r is at an entry whose downloadLink or slug is missing
\* or empty
AtInvalidEntry(r) ==
    /\ task[r].pc = "loop"
    /\ task[r].i <= Len(task[r].entries)
    /\ MissingRequiredFields(task[r].entries[task[r].i])

\* C32: the turn of the loop of downloadFiles that handles an entry without
\* downloadLink or slug puts the entry into `failed`, issues no request and
\* leaves every file of the download directory as it was.
C32_InvalidEntryFailsUntouched ==
    [][ \A r \in Runs :
          (AtInvalidEntry(r) /\ task'[r] # task[r])
          => /\ Len(task'[r].failed) = Len(task[r].failed) + 1
             /\ task'[r].failed[Len(task'[r].failed)].idx = task[r].i
             /\ task'[r].successful = task[r].successful
             /\ task'[r].reqs = task[r].reqs
             /\ files' = files ]_vars

\* ------------------------------------------- functions applied on their own
\* The four services as constructed, with no call made on them
ServicesIdle ==
    /\ isRunning = FALSE
    /\ cleanupTimeout = 0
    /\ isLoggedIn = FALSE
    /\ authenticated = FALSE
    /\ loggedInPages = {}
    /\ browser = 0
    /\ page = 0
    /\ downloadStats = ZeroStats
    /\ openBrowsers = {}
    /\ openPages = {}
    /\ timers = {}
    /\ files = [f \in Filenames |-> "absent"]
    /\ stores = [database |-> <<>>, dataCsv |-> <<>>, errorCsv |-> <<>>]
    /\ task = [r \in Runs |-> IdleTask]
    /\ cancel = [c \in Cancels |-> IdleCancel]
    /\ processing = NotProcessing
    /\ utils = NoUtilsCall

\* A step that touches none of the four services
ServicesUntouched ==
    UNCHANGED <<isRunning, cleanupTimeout, isLoggedIn, authenticated, loggedInPages,
                   browser, page,
                downloadStats, openBrowsers, openPages, timers, files, stores,
                task, cancel, processing, utils>>

\* ------------------------------------- DownloadService.estimateDownloadSize
\* The number of entries probed: entries.slice(0, Math.min(entries.length, 5))
ProbeLimit == 5

Min(a, b) == IF a < b THEN a ELSE b

\* What a HEAD request can give: no response or an error status ("fail"), a
\* response without content-length ("nosize"), or a content-length
ProbeOutcomes ==
    { [kind |-> k, contentLength |-> 0] : k \in {"fail", "nosize"} }
    \cup { [kind |-> "size", contentLength |-> c] : c \in 0..MaxContentLength }

\* Lines 264-270: the extrapolated total when every probe gave a size, else
\* -1.  The quotient is kept as num / den; 0 / 0 is NaN.
EstimateReturn(e) ==
    [e EXCEPT !.pc = "returned",
              !.result = IF e.unknownSizes = 0
                         THEN [num |-> e.totalSize * e.n, den |-> Min(e.n, ProbeLimit)]
                         ELSE [num |-> -1, den |-> 1]]

\* The loop of lines 243-262 moves to its next entry: the HEAD request for
\* it is issued, or the loop is over
EstimateLoop(e) ==
    IF e.k > Min(e.n, ProbeLimit) THEN EstimateReturn(e)
    ELSE [e EXCEPT !.pc = "head", !.probes = @ + 1]

\* estimateDownloadSize(entries, cookies) with n = entries.length, up to the
\* first awaited HEAD request
EstimateCall(e, n) ==
    EstimateLoop([e EXCEPT !.n = n, !.k = 1, !.totalSize = 0, !.unknownSizes = 0])

\* The HEAD request for entry k has settled (lines 253-261)
EstimateProbeDone(e, outcome) ==
    EstimateLoop(
        IF outcome.kind # "size"
        THEN [e EXCEPT !.unknownSizes = @ + 1, !.k = @ + 1]
        ELSE [e EXCEPT !.totalSize = @ + outcome.contentLength,
                       !.sized = @ + 1, !.k = @ + 1])

InitEstimate ==
    /\ ServicesIdle
    /\ estimate = NotEstimating
    /\ extraction = NotExtracting
    /\ rateLimit = NoTraffic
    /\ refresh = AppIdle

\* A caller invokes downloadService.estimateDownloadSize(entries, cookies)
CallEstimateDownloadSize ==
    /\ estimate.pc = "idle"
    /\ \E n \in 0..MaxEstimateEntries : estimate' = EstimateCall(estimate, n)
    /\ ServicesUntouched
    /\ UNCHANGED <<extraction, rateLimit, refresh>>

\* The server answers the pending HEAD request, or fails to
HeadDone ==
    /\ estimate.pc = "head"
    /\ \E outcome \in ProbeOutcomes : estimate' = EstimateProbeDone(estimate, outcome)
    /\ ServicesUntouched
    /\ UNCHANGED <<extraction, rateLimit, refresh>>

NextEstimate ==
    \/ CallEstimateDownloadSize
    \/ HeadDone

SpecEstimate == InitEstimate /\ [][NextEstimate]_vars

\* C33: estimateDownloadSize issues at most 5 probes and returns; it returns
\* -1 only when no probe gave a size, and otherwise (an empty list included)
\* a number that is not negative.
C33_EstimateBoundedAndTotal ==
    /\ estimate.probes <= ProbeLimit
    /\ estimate.pc = "returned"
       => /\ estimate.result = [num |-> -1, den |-> 1] => estimate.sized = 0
          /\ (estimate.sized > 0 \/ estimate.n = 0)
             => estimate.result.den > 0 /\ estimate.result.num >= 0

\* ------------------------------------ ScraperService._extractEntriesFromPage
\* A row of the listing page: the innerText of its .awcpt-date element as
\* tokens ("D" and "E" are two date strings, " " is white space; "none"
\* when the row has no such element), which of the title, download-link and
\* product-link elements it lacks, and where reading it raises: at the date
\* element, at the other elements, or nowhere.
DateTexts == {<<"D">>, <<" ", "D">>, <<"E">>}

RowPool ==
    [date : DateTexts \cup {<<"none">>},
     lacks : {"nothing", "title", "download", "product"},
     raises : {"nowhere", "date", "fields"}]

PageRows == UNION { [1..n -> RowPool] : n \in 0..MaxPageRows }

\* The formatted target date handed to the routine
TargetDates == {<<"D">>}

\* String.prototype.trim on a token sequence
RECURSIVE TrimStart(_)
TrimStart(text) ==
    IF text # <<>> /\ Head(text) = " " THEN TrimStart(Tail(text)) ELSE text

RECURSIVE TrimEnd(_)
TrimEnd(text) ==
    IF text # <<>> /\ text[Len(text)] = " "
    THEN TrimEnd(SubSeq(text, 1, Len(text) - 1)) ELSE text

Trim(text) == TrimEnd(TrimStart(text))

\* A loop body that pushes a matching row without looking for its product
\* link
ExtractRowAnyProduct(row, i, targetDate) ==
    IF row.raises = "date" \/ row.date = <<"none">> THEN <<>>
    ELSE IF Trim(row.date) # targetDate THEN <<>>
    ELSE IF row.raises = "fields" THEN <<>>
    ELSE IF row.lacks \in {"title", "download"} THEN <<>>
    ELSE << [id |-> i, date |-> Trim(row.date)] >>

\* The body of the loop (lines 137-161) for row i: what it pushes
ExtractRow(row, i, targetDate) ==
    IF row.raises = "date" \/ row.date = <<"none">> THEN <<>>
    ELSE IF Trim(row.date) # targetDate THEN <<>>
    ELSE IF row.raises = "fields" THEN <<>>
    ELSE IF row.lacks # "nothing" THEN <<>>
    ELSE << [id |-> i, date |-> Trim(row.date)] >>

\* _extractEntriesFromPage(targetDate) on a page with these rows, from row i
RECURSIVE ExtractFrom(_, _, _)
ExtractFrom(rows, i, targetDate) ==
    IF i > Len(rows) THEN <<>>
    ELSE ExtractRow(rows[i], i, targetDate) \o ExtractFrom(rows, i + 1, targetDate)

ExtractEntriesFromPage(rows, targetDate) == ExtractFrom(rows, 1, targetDate)

\* The routine on its own: a page is rendered and a target date is given
InitExtraction ==
    /\ ServicesIdle
    /\ estimate = NotEstimating
    /\ \E rows \in PageRows : \E targetDate \in TargetDates :
         extraction = [NotExtracting EXCEPT !.rows = rows, !.targetDate = targetDate]
    /\ rateLimit = NoTraffic
    /\ refresh = AppIdle

\* page.evaluate runs the routine in the page
CallExtractEntriesFromPage ==
    /\ ~extraction.returned
    /\ extraction' =
         [extraction EXCEPT
            !.entries = ExtractEntriesFromPage(extraction.rows, extraction.targetDate),
            !.returned = TRUE]
    /\ ServicesUntouched
    /\ UNCHANGED <<estimate, rateLimit, refresh>>

NextExtraction == CallExtractEntriesFromPage

SpecExtraction == InitExtraction /\ [][NextExtraction]_vars

\* Row i shows the target date and has the three elements, and reading it
\* does not raise
Collectable(rows, i, targetDate) ==
    /\ rows[i].date # <<"none">>
    /\ Trim(rows[i].date) = targetDate
    /\ rows[i].lacks = "nothing"
    /\ rows[i].raises = "nowhere"

\* C34: the extraction routine returns exactly the rows that show the
\* target date (the displayed text of their date element) and have a title,
\* a download link and a product link, in document order; every other row,
\* one whose reading raises included, is left out and hides no other row.
C34_ExactlyMatchingRows ==
    extraction.returned
    => LET rows == extraction.rows
           es == extraction.entries
           hit == { i \in 1..Len(rows) : Collectable(rows, i, extraction.targetDate) }
       IN /\ { es[k].id : k \in 1..Len(es) } = hit
          /\ Len(es) = Cardinality(hit)
          /\ \A k \in 1..(Len(es) - 1) : es[k].id < es[k + 1].id
          /\ \A k \in 1..Len(es) : es[k].date = extraction.targetDate

\* a row whose reading raised stands before a row that was collected
C34_Witness ==
    /\ extraction.returned
    /\ Len(extraction.rows) >= 2
    /\ extraction.rows[1].raises = "date"
    /\ Len(extraction.entries) = 1
    /\ extraction.entries[1].id = 2

\* ---------------------------------------- ValidationMiddleware.rateLimit
\* Lines 298-303: the entries whose window has elapsed are deleted
CleanUp(requests, now) ==
    [ip \in Ips |->
        IF requests[ip].count > 0 /\ now - requests[ip].firstRequest > WindowMs
        THEN [count |-> 0, firstRequest |-> 0]
        ELSE requests[ip]]

\* Lines 306-314: the entry of the IP, or a fresh one, counted up or reset
Counted(requests, ip, now) ==
    LET ipData == IF requests[ip].count > 0 THEN requests[ip]
                  ELSE [count |-> 0, firstRequest |-> now]
    IN IF now - ipData.firstRequest > WindowMs
       THEN [count |-> 1, firstRequest |-> now]
       ELSE [ipData EXCEPT !.count = @ + 1]

\* A middleware that answers 429 from the maxRequests-th request on
RateLimitOffByOne(rl, ip) ==
    LET ipData == Counted(CleanUp(rl.requests, rl.now), ip, rl.now)
    IN [rl EXCEPT !.requests = [CleanUp(rl.requests, rl.now) EXCEPT ![ip] = ipData],
                  !.log = Append(@, [ip |-> ip, at |-> rl.now,
                                     passed |-> ~(ipData.count >= MaxRequests)])]

\* The middleware handles a request of `ip` (lines 294-340): passed is TRUE
\* when next() is called, FALSE when 429 is answered
RateLimit(rl, ip) ==
    LET ipData == Counted(CleanUp(rl.requests, rl.now), ip, rl.now)
    IN [rl EXCEPT !.requests = [CleanUp(rl.requests, rl.now) EXCEPT ![ip] = ipData],
                  !.log = Append(@, [ip |-> ip, at |-> rl.now,
                                     passed |-> ~(ipData.count > MaxRequests)])]

InitRateLimit ==
    /\ ServicesIdle
    /\ estimate = NotEstimating
    /\ extraction = NotExtracting
    /\ rateLimit = NoTraffic
    /\ refresh = AppIdle

\* A request of some client reaches the middleware
RequestArrives ==
    /\ Len(rateLimit.log) < MaxArrivals
    /\ \E ip \in Ips : rateLimit' = RateLimit(rateLimit, ip)
    /\ ServicesUntouched
    /\ UNCHANGED <<estimate, extraction, refresh>>

\* Date.now() advances
ClockTick ==
    /\ rateLimit.now < MaxNow
    /\ rateLimit' = [rateLimit EXCEPT !.now = @ + 1]
    /\ ServicesUntouched
    /\ UNCHANGED <<estimate, extraction, refresh>>

NextRateLimit ==
    \/ RequestArrives
    \/ ClockTick

SpecRateLimit == InitRateLimit /\ [][NextRateLimit]_vars

\* The requests of one client, in arrival order
RequestsOf(ip) == SelectSeq(rateLimit.log, LAMBDA q : q.ip = ip)

\* The arrival time of the request that opened the window request k of the
\* sequence falls into: the first request opens a window, and so does every
\* request that arrives more than windowMs after the opening of the window
\* before it
RECURSIVE WindowOpenedAt(_, _)
WindowOpenedAt(seq, k) ==
    IF k = 1 THEN seq[1].at
    ELSE LET w == WindowOpenedAt(seq, k - 1)
         IN IF seq[k].at - w > WindowMs THEN seq[k].at ELSE w

\* The place of request k among the requests of its window
RankInWindow(seq, k) ==
    Cardinality({ j \in 1..k : WindowOpenedAt(seq, j) = WindowOpenedAt(seq, k) })

\* C35: for every client, the requests of one window are passed to next()
\* up to the maxRequests-th and answered 429 from then on, and the request
\* that opens a window is passed.
C35_AtMostMaxPerWindow ==
    \A ip \in Ips :
        LET seq == RequestsOf(ip)
        IN \A k \in 1..Len(seq) :
              /\ seq[k].passed <=> RankInWindow(seq, k) <= MaxRequests
              /\ RankInWindow(seq, k) = 1 => seq[k].passed

\* a client was answered 429 in one window and passed again once the window
\* had elapsed
C35_Witness ==
    \E ip \in Ips :
        LET seq == RequestsOf(ip)
        IN \E k \in 2..Len(seq) :
              /\ ~seq[k - 1].passed
              /\ seq[k].passed
              /\ RankInWindow(seq, k) = 1

\* C36: when downloadFiles returns, the file of every entry of the
\* successful array exists in the download directory and is not empty.
C36_SuccessfulFilesKept ==
    \A r \in Runs :
        (SettledDownload(r) /\ task[r].out = "Resolved")
        => \A j \in 1..Len(task[r].successful) :
              files[task[r].successful[j].filename] = "full"

\* No call of a ScraperService method is in progress
BetweenCalls == \A r \in Runs : task[r].pc \in {"idle", "settled", "returned"}

\* C37: whenever no call is in progress, isLoggedIn is true only if the
\* browser service holds a page and that page is one on which login()
\* completed.
C37_LoggedInOnAuthenticatedPage ==
    (BetweenCalls /\ isLoggedIn) => (page # 0 /\ page \in loggedInPages)

\* ------------------------------------------------------------------ app.js
\* Requests are numbered in the order of their arrival.  req is the position
\* of each handler ("processing" is the await on line 146), timer and left
\* the cleanup timer each handler armed and the ticks until it is due,
\* downloads the requests whose files lie in public/downloads.
\* GET /refresh up to the await of the task (lines 126-146); an invalid date
\* is answered 400 at once
RefreshCall(a, q, dateOk) ==
    [a EXCEPT !.req[q] = IF dateOk THEN "processing" ELSE "done"]

\* The task of request q stores a downloaded file (the task is
\* func/scheduledTaskYesterday, which writes into public/downloads)
TaskStores(a, q) == [a EXCEPT !.downloads = @ \cup {q}]

\* The task has resolved or rejected (lines 147-179): executeAfterAnHour()
\* arms a timer on either path, then the response is sent
RefreshSettled(a, q) ==
    [a EXCEPT !.req[q] = "done", !.timer[q] = "armed", !.left[q] = HourTicks]

\* The callback of executeAfterAnHour (lines 66-91): every file of the
\* downloads directory is unlinked
CleanupFires(a, q) == [a EXCEPT !.timer[q] = "fired", !.downloads = {}]

\* Time passes for the armed timers
TimePasses(a) ==
    [a EXCEPT !.left = [q \in Requests |->
                          IF a.timer[q] = "armed" THEN a.left[q] - 1 ELSE a.left[q]]]

InitApp ==
    /\ ServicesIdle
    /\ estimate = NotEstimating
    /\ extraction = NotExtracting
    /\ rateLimit = NoTraffic
    /\ refresh = AppIdle

\* What the application steps leave alone
AppOnly == ServicesUntouched /\ UNCHANGED <<estimate, extraction, rateLimit>>

RefreshArrives(q) ==
    /\ refresh.req[q] = "idle"
    /\ \A p \in 1..(q - 1) : refresh.req[p] # "idle"
    /\ \E dateOk \in BOOLEAN : refresh' = RefreshCall(refresh, q, dateOk)
    /\ AppOnly

TaskDownloads(q) ==
    /\ refresh.req[q] = "processing"
    /\ q \notin refresh.downloads
    /\ refresh' = TaskStores(refresh, q)
    /\ AppOnly

TaskSettles(q) ==
    /\ refresh.req[q] = "processing"
    /\ refresh' = RefreshSettled(refresh, q)
    /\ AppOnly

HourTick ==
    /\ \E q \in Requests : refresh.timer[q] = "armed"
    /\ \A q \in Requests : refresh.timer[q] = "armed" => refresh.left[q] > 0
    /\ refresh' = TimePasses(refresh)
    /\ AppOnly

TimerFires(q) ==
    /\ refresh.timer[q] = "armed"
    /\ refresh.left[q] = 0
    /\ refresh' = CleanupFires(refresh, q)
    /\ AppOnly

NextApp ==
    \/ \E q \in Requests : RefreshArrives(q)
    \/ \E q \in Requests : TaskDownloads(q)
    \/ \E q \in Requests : TaskSettles(q)
    \/ HourTick
    \/ \E q \in Requests : TimerFires(q)

SpecApp == InitApp /\ [][NextApp]_vars

\* C38: the cleanup timer armed by a /refresh request does not fire while a
\* later /refresh request is being processed, and so deletes no file that
\* the later request has downloaded so far.
C38_NoCleanupDuringLaterRefresh ==
    [][ \A q \in Requests :
          (refresh.timer[q] = "armed" /\ refresh'.timer[q] = "fired")
          => \A p \in Requests :
                p > q => refresh.req[p] # "processing" ]_vars

====
